---- MODULE Spec2Model ----
(***************************************************************************)
(* Food-truck ordering and staff management: allergy screening, schedule   *)
(* booking, the shift time clock, orders, deals, user accounts and the     *)
(* session cart of src/foodtruck.py and src/app.py, and the CSV cache,     *)
(* quantity validator and verification codes of src/utils.                 *)
(*                                                                         *)
(* Text is modelled as a sequence of one-character strings, so that        *)
(* lower(), strip(), slicing and substring containment are computed and    *)
(* not assumed.  CSV files are modelled by the sequence of their data rows.*)
(***************************************************************************)
EXTENDS Integers, Sequences, FiniteSets, TLC

VARIABLES
    usersCsv,       \* data/users.csv: rows of the staff roster
    schedulesCsv,   \* data/schedules.csv: rows of schedule records
    schedules,      \* FoodTruck.schedules, the in-memory list
    shiftsCsv,      \* data/shifts.csv: rows of shift records
    shifts,         \* FoodTruck.shifts, the in-memory list
    now,            \* wall clock, seconds since 2025-01-06 00:00:00
    menuCsv,        \* data/menu.csv: whether it exists, and its rows
    menu_items,     \* FoodTruck.menu_items, the in-memory catalog
    inp,            \* arguments of the request or call handled last
    resp,           \* what the last request or call returned
    reqs,           \* requests in flight: per worker, position and locals
    overlapped,     \* history: two requests have been in flight at once
    plan,           \* lifecycle script: the four clock readings
    stage,          \* lifecycle script: position in the script
    ordersCsv,      \* data/orders.csv: rows of order records
    orders,         \* FoodTruck.orders, the in-memory list
    dealsCsv,       \* data/deals.csv: rows of deal records
    deals,          \* FoodTruck.deals, the in-memory list
    schedulesMode,  \* data/schedules.csv: exists, readable, writable
    mtimes,         \* file system: modification time of each existing file
    _file_timestamps, \* CSVCache._file_timestamps
    _cached_data,   \* CSVCache._cached_data
    fresh,          \* history: per path, the data stored since the file last changed
    shiftsMode,     \* data/shifts.csv: exists, readable, writable
    cart,           \* session["cart"]: per item name, price and qty
    _verification_codes \* utils.verification._verification_codes

vars == <<usersCsv, schedulesCsv, schedules, shiftsCsv, shifts, now,
          menuCsv, menu_items, inp, resp, reqs, overlapped, plan, stage,
          ordersCsv, orders, dealsCsv, deals, schedulesMode, mtimes,
          _file_timestamps, _cached_data, fresh, shiftsMode, cart,
          _verification_codes>>

\* the shift file's permissions, the session cart and the verification codes
extras == <<shiftsMode, cart, _verification_codes>>

\* the state outside the staff, schedule, shift and menu collections
others == <<ordersCsv, orders, dealsCsv, deals, schedulesMode, mtimes,
            _file_timestamps, _cached_data, fresh, extras>>

-----------------------------------------------------------------------------
(* Bounds of the model *)

MaxSchedules == 2
MaxShifts == 2
MaxTicks == 1
MaxText == 3
MaxMenu == 2

-----------------------------------------------------------------------------
(* Python str operations on character sequences *)

Whitespace == {" ", "\n", "\r"}

UpperToLower ==
    ("A" :> "a") @@ ("B" :> "b") @@ ("C" :> "c") @@ ("D" :> "d") @@ ("E" :> "e") @@
    ("F" :> "f") @@ ("G" :> "g") @@ ("H" :> "h") @@ ("I" :> "i") @@ ("J" :> "j") @@
    ("K" :> "k") @@ ("L" :> "l") @@ ("M" :> "m") @@ ("N" :> "n") @@ ("O" :> "o") @@
    ("P" :> "p") @@ ("Q" :> "q") @@ ("R" :> "r") @@ ("S" :> "s") @@ ("T" :> "t") @@
    ("U" :> "u") @@ ("V" :> "v") @@ ("W" :> "w") @@ ("X" :> "x") @@ ("Y" :> "y") @@
    ("Z" :> "z")

LowerChar(c) == IF c \in DOMAIN UpperToLower THEN UpperToLower[c] ELSE c

\* str.lower()
Lower(s) == [i \in 1..Len(s) |-> LowerChar(s[i])]

\* str.strip(): drop leading and trailing whitespace
Strip(s) ==
    LET keep == {i \in 1..Len(s) : s[i] \notin Whitespace}
        Min(S) == CHOOSE x \in S : \A y \in S : x <= y
        Max(S) == CHOOSE x \in S : \A y \in S : x >= y
    IN  IF keep = {} THEN <<>> ELSE SubSeq(s, Min(keep), Max(keep))

\* a in b, for strings
Contains(b, a) ==
    \E i \in 0..(Len(b) - Len(a)) : SubSeq(b, i + 1, i + Len(a)) = a

\* s[:n]
Slice(s, n) == SubSeq(s, 1, IF Len(s) < n THEN Len(s) ELSE n)

\* foodtruck._sanitize_for_csv: strip, then newlines become spaces
NoNewline(c) == IF c \in {"\n", "\r"} THEN " " ELSE c
_sanitize_for_csv(value) ==
    LET text == Strip(value) IN [i \in 1..Len(text) |-> NoNewline(text[i])]

\* app.sanitize_text: strip only
sanitize_text(value) == Strip(value)

-----------------------------------------------------------------------------
(* datetime.strptime(date_str, "%Y-%m-%d").date() and strftime("%A") *)

DigitVal ==
    ("0" :> 0) @@ ("1" :> 1) @@ ("2" :> 2) @@ ("3" :> 3) @@ ("4" :> 4) @@
    ("5" :> 5) @@ ("6" :> 6) @@ ("7" :> 7) @@ ("8" :> 8) @@ ("9" :> 9)

IsDigits(s) == \A i \in 1..Len(s) : s[i] \in DOMAIN DigitVal

RECURSIVE ToInt(_)
ToInt(s) ==
    IF s = <<>> THEN 0
    ELSE 10 * ToInt(SubSeq(s, 1, Len(s) - 1)) + DigitVal[s[Len(s)]]

IsLeap(y) == (y % 4 = 0) /\ ((y % 100 # 0) \/ (y % 400 = 0))

DaysInMonth(y, m) ==
    IF m = 2 THEN (IF IsLeap(y) THEN 29 ELSE 28)
    ELSE IF m \in {4, 6, 9, 11} THEN 30 ELSE 31

RECURSIVE DaysBeforeMonth(_, _)
DaysBeforeMonth(y, m) ==
    IF m = 1 THEN 0 ELSE DaysBeforeMonth(y, m - 1) + DaysInMonth(y, m - 1)

\* date.toordinal()
ToOrdinal(y, m, d) ==
    (y - 1) * 365 + ((y - 1) \div 4) - ((y - 1) \div 100) + ((y - 1) \div 400)
    + DaysBeforeMonth(y, m) + d

\* strptime raising ValueError (no ordinal is negative)
ValueError == -1

\* %Y is four digits; %m is 1[0-2]|0[1-9]|[1-9]; %d is
\* 3[01]|[12]\d|0[1-9]|[1-9]| [1-9]; nothing may precede or follow.
\* The result is the date's ordinal, or ValueError.
StrpDate(s) ==
    LET dashes == {i \in 6..Len(s) : s[i] = "-"}
    IN  IF Len(s) < 8 \/ s[5] # "-" \/ Cardinality(dashes) # 1
           \/ ~IsDigits(SubSeq(s, 1, 4))
        THEN ValueError
        ELSE
          LET k    == CHOOSE i \in dashes : TRUE
              mtxt == SubSeq(s, 6, k - 1)
              draw == SubSeq(s, k + 1, Len(s))
              dtxt == IF Len(draw) = 2 /\ draw[1] = " " THEN Tail(draw) ELSE draw
          IN  IF Len(mtxt) \notin {1, 2} \/ Len(draw) \notin {1, 2}
                 \/ ~IsDigits(mtxt) \/ ~IsDigits(dtxt)
              THEN ValueError
              ELSE
                LET y == ToInt(SubSeq(s, 1, 4))
                    m == ToInt(mtxt)
                    d == ToInt(dtxt)
                IN  IF m \notin 1..12 \/ d < 1 THEN ValueError
                    ELSE IF d > DaysInMonth(y, m) \/ y < 1 THEN ValueError
                    ELSE ToOrdinal(y, m, d)

DayNames ==
    <<"Monday", "Tuesday", "Wednesday", "Thursday", "Friday", "Saturday",
      "Sunday">>

\* strftime("%A") of the date with this ordinal
DayName(ord) == DayNames[((ord + 6) % 7) + 1]

-----------------------------------------------------------------------------
(* Constants of foodtruck.py *)

TIME_SLOTS ==
    << <<"0","9",":","0","0">>, <<"1","0",":","0","0">>,
       <<"1","1",":","0","0">>, <<"1","2",":","0","0">>,
       <<"1","3",":","0","0">>, <<"1","4",":","0","0">>,
       <<"1","5",":","0","0">>, <<"1","6",":","0","0">>,
       <<"1","7",":","0","0">> >>

WORKING_DAYS_WithMonday ==
    <<"Monday", "Tuesday", "Wednesday", "Thursday", "Friday", "Saturday",
      "Sunday">>

WORKING_DAYS ==
    <<"Tuesday", "Wednesday", "Thursday", "Friday", "Saturday", "Sunday">>

Range(f) == {f[i] : i \in DOMAIN f}

-----------------------------------------------------------------------------
(* Menu catalog and allergy check: foodtruck.py.  Of a menu item only the *)
(* name and the allergen tags are kept.                                  *)

\* text.split(","), as a sequence of texts
RECURSIVE Split(_)
Split(text) ==
    LET commas == {i \in 1..Len(text) : text[i] = ","}
    IN  IF commas = {} THEN <<text>>
        ELSE LET k == CHOOSE i \in commas : \A j \in commas : i <= j
             IN  <<SubSeq(text, 1, k - 1)>> \o Split(SubSeq(text, k + 1, Len(text)))

\* ",".join(texts)
RECURSIVE Join(_)
Join(texts) ==
    IF texts = <<>> THEN <<>>
    ELSE IF Len(texts) = 1 THEN texts[1]
    ELSE texts[1] \o <<",">> \o Join(Tail(texts))

\* [a.strip() for a in text.split(",") if a.strip()] if text else []
ParseAllergens(cell) ==
    LET text  == Strip(cell)
        parts == Split(text)
    IN  IF text = <<>> THEN <<>>
        ELSE SelectSeq([i \in 1..Len(parts) |-> Strip(parts[i])],
                       LAMBDA a : a # <<>>)

\* _get_hardcoded_menu_items: the first of its items and one of those
\* without allergens
_get_hardcoded_menu_items ==
    << [name |-> <<"O","r","i","g","i","n","a","l"," ","C","h","i","c","k","e","n"," ">> \o
                 <<"S","a","n","d","w","i","c","h"," ","C","o","m","b","o">>,
        allergens |-> <<<<"g","l","u","t","e","n">>, <<"w","h","e","a","t">>, <<"e","g","g">>>>],
       [name |-> <<"I","c","e","d"," ","T","e","a">>, allergens |-> <<>>] >>

MissingFile == [exists |-> FALSE]
File(rows) == [exists |-> TRUE, rows |-> rows]

\* the Name and Allergens cells written for an item
MenuCsvRow(name, allergens) ==
    [name |-> _sanitize_for_csv(name), allergens |-> Join(allergens)]

\* the items read from the rows of menu.csv
ReadMenu(rows) ==
    [i \in 1..Len(rows) |->
        [name |-> rows[i].name, allergens |-> ParseAllergens(rows[i].allergens)]]

\* load_menu_from_csv: the in-memory catalog and the file it leaves; a
\* missing file is first written from the hardcoded items
load_menu_from_csv(csv) ==
    IF csv.exists THEN [items |-> ReadMenu(csv.rows), csv |-> csv]
    ELSE LET hard == _get_hardcoded_menu_items
             rows == [i \in 1..Len(hard) |-> MenuCsvRow(hard[i].name, hard[i].allergens)]
         IN  [items |-> ReadMenu(rows), csv |-> File(rows)]

\* get_menu_items: loads the catalog when the in-memory one is empty
get_menu_items(items, csv) ==
    IF items = <<>> THEN load_menu_from_csv(csv)
    ELSE [items |-> items, csv |-> csv]

\* (mutation) every item is given the tags of the whole catalog
get_menu_allergens_AllTags(items) ==
    [n \in {items[i].name : i \in 1..Len(items)} |->
        IF items = <<>> THEN <<>>
        ELSE LET all[i \in 1..Len(items)] ==
                     IF i = 1 THEN items[1].allergens
                     ELSE all[i - 1] \o items[i].allergens
             IN  all[Len(items)]]

\* get_menu_allergens: a dict from item name to allergens; of two items
\* with the same name the later one stays
get_menu_allergens(items) ==
    [n \in {items[i].name : i \in 1..Len(items)} |->
        LET idx == {i \in 1..Len(items) : items[i].name = n}
        IN  items[CHOOSE i \in idx : \A j \in idx : i >= j].allergens]

\* (mutation) an empty disclosure is treated as unsafe
is_order_safe_for_allergy_EmptyUnsafe(items, items_text, allergy_text0) ==
    LET allergy_text == Strip(Lower(allergy_text0))
        menu_allergens == get_menu_allergens(items)
        items_text_lower == Lower(items_text)
        matched == {n \in DOMAIN menu_allergens : Contains(items_text_lower, Lower(n))}
        by_substring == UNION {Range(menu_allergens[n]) : n \in matched}
        combined_allergens ==
            IF by_substring = {} /\ items_text \in DOMAIN menu_allergens
            THEN Range(menu_allergens[items_text])
            ELSE by_substring
    IN  IF allergy_text = <<>> THEN FALSE
        ELSE ~\E allergen \in combined_allergens : Contains(allergy_text, allergen)

\* is_order_safe_for_allergy, on the catalog get_menu_items returns
is_order_safe_for_allergy(items, items_text, allergy_text0) ==
    LET allergy_text == Strip(Lower(allergy_text0))
        menu_allergens == get_menu_allergens(items)
        items_text_lower == Lower(items_text)
        matched == {n \in DOMAIN menu_allergens : Contains(items_text_lower, Lower(n))}
        by_substring == UNION {Range(menu_allergens[n]) : n \in matched}
        combined_allergens ==
            IF by_substring = {} /\ items_text \in DOMAIN menu_allergens
            THEN Range(menu_allergens[items_text])
            ELSE by_substring
    IN  IF allergy_text = <<>> THEN TRUE
        ELSE ~\E allergen \in combined_allergens : Contains(allergy_text, allergen)

\* add_menu_item: a missing file is created with its header and the call
\* fails; otherwise the item is appended and the catalog reloaded
add_menu_item(csv, items, name, allergens) ==
    IF ~csv.exists THEN [ok |-> FALSE, csv |-> File(<<>>), items |-> items]
    ELSE LET stripped == SelectSeq([i \in 1..Len(allergens) |-> Strip(allergens[i])],
                                   LAMBDA a : a # <<>>)
             rows == Append(csv.rows, MenuCsvRow(name, stripped))
         IN  [ok |-> TRUE, csv |-> File(rows), items |-> ReadMenu(rows)]

-----------------------------------------------------------------------------
(* Input texts *)

Alice  == <<"a","l","i","c","e","@","x">>
Alice2 == <<"a","l","i","c","e","2","@","x">>
Bob    == <<"b","o","b","@","x">>

Mon06      == <<"2","0","2","5","-","0","1","-","0","6">>
Tue07      == <<"2","0","2","5","-","0","1","-","0","7">>
Tue07Short == <<"2","0","2","5","-","1","-","7">>
Feb30      == <<"2","0","2","5","-","0","2","-","3","0">>

Slot09  == <<"0","9",":","0","0">>
Slot10  == <<"1","0",":","0","0">>
Slot9am == <<"9",":","0","0">>

\* what the booking forms can submit
EmailInputs == {Alice, <<" ">> \o Alice, Bob, <<"A","L","I","C","E","@","X">>}
DateInputs  == {Mon06, Tue07, Tue07Short, Feb30}
SlotInputs  == {Slot09, Slot10, Slot9am}
Managers    == {<<"M">>}

None == [none |-> TRUE]

-----------------------------------------------------------------------------
(* Schedules: foodtruck.py *)

\* get_user_details: the roster row whose email matches, ignoring case
\* and surrounding whitespace; None when the email is empty or unknown
get_user_details(email) ==
    IF email = <<>> THEN None
    ELSE
      LET e == Lower(Strip(email))
          hits == {i \in 1..Len(usersCsv) : Lower(Strip(usersCsv[i].email)) = e}
      IN  IF hits = {} THEN None
          ELSE usersCsv[CHOOSE i \in hits : \A j \in hits : i <= j]

\* is_time_slot_available, over the rows just loaded from the CSV
is_time_slot_available(csv, staff_email, date_str, time_slot) ==
    LET ord == StrpDate(date_str)
    IN  IF ord = ValueError THEN FALSE
        ELSE IF DayName(ord) \notin Range(WORKING_DAYS) THEN FALSE
        ELSE ~\E i \in 1..Len(csv) :
                 /\ csv[i].staff_email = staff_email
                 /\ csv[i].date = date_str
                 /\ csv[i].time = time_slot

\* get_available_slots: TIME_SLOTS filtered by availability
get_available_slots(csv, staff_email, date_str) ==
    LET ord == StrpDate(date_str)
    IN  IF ord = ValueError THEN <<>>
        ELSE IF DayName(ord) \notin Range(WORKING_DAYS) THEN <<>>
        ELSE SelectSeq(TIME_SLOTS,
                 LAMBDA slot : is_time_slot_available(csv, staff_email, date_str, slot))

\* the row book_schedule writes
ScheduleRow(manager, date, time, staff_email, staff_name, work_time) ==
    [manager     |-> _sanitize_for_csv(manager),
     date        |-> _sanitize_for_csv(date),
     time        |-> _sanitize_for_csv(time),
     staff_email |-> _sanitize_for_csv(staff_email),
     staff_name  |-> staff_name,
     work_time   |-> _sanitize_for_csv(work_time)]

\* book_schedule's own double-booking check, on the in-memory list
AlreadyInMemory(mem, staff_email, date, time) ==
    \E i \in 1..Len(mem) :
        mem[i].staff_email = staff_email /\ mem[i].date = date /\ mem[i].time = time

MsgInvalidDate  == <<"Invalid date format. Use YYYY-MM-DD">>
MsgNonWorking   == "is not a working day"
MsgInvalidSlot  == <<"Invalid time slot">>
MsgNoStaff      == <<"Staff member not found">>
MsgConflict     == <<"Time slot is already booked for this staff member">>
MsgBooked       == <<"Schedule booked successfully">>
MsgBookFailed   == <<"Failed to book schedule">>
MsgMissing      == <<"Missing required fields">>

\* book_helper: (success, message), and the CSV and the in-memory list
\* it leaves behind
book_helper(manager, date_str, time_slot, staff_email, work_time) ==
    LET ord   == StrpDate(date_str)
        staff == get_user_details(staff_email)
        keep(m) == [ok |-> FALSE, msg |-> m, csv |-> schedulesCsv, mem |-> schedules]
    IN  IF ord = ValueError THEN keep(MsgInvalidDate)
        ELSE IF DayName(ord) \notin Range(WORKING_DAYS)
             THEN keep(<<DayName(ord), MsgNonWorking>>)
        ELSE IF time_slot \notin Range(TIME_SLOTS) THEN keep(MsgInvalidSlot)
        ELSE IF staff = None THEN keep(MsgNoStaff)
        ELSE IF ~is_time_slot_available(schedulesCsv, staff_email, date_str, time_slot)
             THEN [ok |-> FALSE, msg |-> MsgConflict,
                   csv |-> schedulesCsv, mem |-> schedulesCsv]
        ELSE IF AlreadyInMemory(schedulesCsv, staff_email, date_str, time_slot)
             THEN [ok |-> FALSE, msg |-> MsgBookFailed,
                   csv |-> schedulesCsv, mem |-> schedulesCsv]
        ELSE
          LET row == ScheduleRow(manager, date_str, time_slot, staff_email,
                                 <<staff.first, staff.last>>, work_time)
          IN  [ok |-> TRUE, msg |-> MsgBooked,
               csv |-> Append(schedulesCsv, row),
               mem |-> Append(schedulesCsv, row)]

BookFrame == UNCHANGED <<others, usersCsv, shiftsCsv, shifts, now, menuCsv,
                         menu_items, reqs, overlapped, plan, stage>>

\* POST /book_schedule (admin form): the form values go to book_helper
\* as submitted
book_schedule_submit(manager, date_str, time_slot, staff_email) ==
    /\ Len(schedulesCsv) < MaxSchedules
    /\ LET r == book_helper(manager, date_str, time_slot, staff_email,
                            time_slot \o <<" ","s","h","i","f","t">>)
       IN  /\ inp' = [op |-> "book", manager |-> manager, date |-> date_str,
                      time |-> time_slot, staff_email |-> staff_email]
           /\ resp' = [ok |-> r.ok, msg |-> r.msg]
           /\ schedulesCsv' = r.csv
           /\ schedules' = r.mem
    /\ BookFrame

\* POST /book_appointment (staff): every value goes through sanitize_text
\* and must be non-empty
book_appointment(manager, date_in, time_in, email_in) ==
    /\ Len(schedulesCsv) < MaxSchedules
    /\ LET date_str    == sanitize_text(date_in)
           time_slot   == sanitize_text(time_in)
           staff_email == sanitize_text(email_in)
           missing     == date_str = <<>> \/ time_slot = <<>> \/ staff_email = <<>>
           r == IF missing
                THEN [ok |-> FALSE, msg |-> MsgMissing,
                      csv |-> schedulesCsv, mem |-> schedules]
                ELSE book_helper(sanitize_text(manager), date_str, time_slot,
                                 staff_email,
                                 sanitize_text(time_slot \o <<" ","s","h","i","f","t">>))
       IN  /\ inp' = [op |-> "book", manager |-> sanitize_text(manager), date |-> date_str,
                      time |-> time_slot, staff_email |-> staff_email]
           /\ resp' = [ok |-> r.ok, msg |-> r.msg]
           /\ schedulesCsv' = r.csv
           /\ schedules' = r.mem
    /\ BookFrame

\* (mutation) the query holds the first slot it offers: it stores a record
\* for it
AvailableSlots_Holding(staff_email, date_str) ==
    LET slots == get_available_slots(schedulesCsv, staff_email, date_str)
        held  == IF slots = <<>> THEN schedulesCsv
                 ELSE Append(schedulesCsv,
                             ScheduleRow(<<>>, date_str, slots[1], staff_email, <<>>, <<>>))
    IN  /\ inp' = [op |-> "slots", staff_email |-> staff_email, date |-> date_str]
        /\ resp' = [ok |-> TRUE, slots |-> slots]
        /\ schedulesCsv' = held
        /\ schedules' = held
        /\ BookFrame

\* FoodTruck.get_available_slots as called by the staff pages; on a
\* parsable working day is_time_slot_available reloads the in-memory list
AvailableSlots(staff_email, date_str) ==
    /\ inp' = [op |-> "slots", staff_email |-> staff_email, date |-> date_str]
    /\ resp' = [ok |-> TRUE, slots |-> get_available_slots(schedulesCsv, staff_email, date_str)]
    /\ schedules' = IF StrpDate(date_str) = ValueError
                       \/ DayName(StrpDate(date_str)) \notin Range(WORKING_DAYS)
                    THEN schedules ELSE schedulesCsv
    /\ UNCHANGED schedulesCsv
    /\ BookFrame

-----------------------------------------------------------------------------
(* Files and permissions *)

\* check_file_permissions: (exists, readable, writable)
Mode(e, r, w) == [exists |-> e, readable |-> r, writable |-> w]
Usable == Mode(TRUE, TRUE, TRUE)

\* after start-up with no orders and no deals stored, the schedules file
\* usable and nothing cached
ExtrasInit ==
    /\ shiftsMode = Usable
    /\ cart = <<>>
    /\ _verification_codes = <<>>

OthersInit ==
    /\ ExtrasInit
    /\ fresh = <<>>
    /\ ordersCsv = <<>>
    /\ orders = <<>>
    /\ dealsCsv = <<>>
    /\ deals = <<>>
    /\ schedulesMode = Usable
    /\ mtimes = <<>>
    /\ _file_timestamps = <<>>
    /\ _cached_data = <<>>

-----------------------------------------------------------------------------
(* The booking specification *)

Roster ==
    << [email |-> Alice,  first |-> "Al", last |-> "Ice", role |-> "staff"],
       [email |-> Alice2, first |-> "Ali", last |-> "Two", role |-> "staff"] >>

NoCall == [op |-> "none"]

Init ==
    /\ usersCsv = Roster
    /\ schedulesCsv = <<>>
    /\ schedules = <<>>
    /\ shiftsCsv = <<>>
    /\ shifts = <<>>
    /\ now = 0
    /\ menuCsv = [exists |-> TRUE, rows |-> <<>>]
    /\ menu_items = <<>>
    /\ inp = NoCall
    /\ resp = NoCall
    /\ reqs = <<>>
    /\ overlapped = FALSE
    /\ plan = <<>>
    /\ stage = 0
    /\ OthersInit

NextBook ==
    \/ \E m \in Managers, d \in DateInputs, t \in SlotInputs, e \in EmailInputs :
           book_schedule_submit(m, d, t, e)
    \/ \E m \in Managers, d \in DateInputs, t \in SlotInputs, e \in EmailInputs :
           book_appointment(m, d, t, e)
    \/ \E d \in DateInputs, e \in EmailInputs : AvailableSlots(e, d)

SpecBook == Init /\ [][NextBook]_vars

-----------------------------------------------------------------------------
(* Shifts: foodtruck.py *)

\* datetime.now().date(), as an ordinal; the clock starts at
\* 2025-01-06 00:00:00
Today == ToOrdinal(2025, 1, 6) + (now \div 86400)

\* datetime.now().strftime("%Y-%m-%d %H:%M:%S"): the date part and the
\* time-of-day part of the text, whole seconds
Strftime(t) == <<t \div 86400, t % 86400>>

\* the empty string in a timestamp column
NoTime == <<>>

\* a timestamp cell whose text is not of the form %Y-%m-%d %H:%M:%S
Malformed == <<-1>>

\* (mutation) a text that does not parse counts as the start of the clock
Strptime_Lenient(text) ==
    IF text = Malformed THEN 0 ELSE text[1] * 86400 + text[2]

\* datetime.strptime(text, "%Y-%m-%d %H:%M:%S"), in seconds
Strptime(text) ==
    IF text = Malformed THEN ValueError ELSE text[1] * 86400 + text[2]

\* f"{total_time.total_seconds() / 3600:.2f}", in hundredths of an hour.
\* Clock readings are multiples of 150 s; on these seconds/3600 rounds to
\* the nearest hundredth and an exact half (a multiple of 1/8 hour, exact
\* in binary) goes to the even hundredth.
Format2(seconds) ==
    LET a == IF seconds < 0 THEN 0 - seconds ELSE seconds
        q == a \div 36
        r == a % 36
        h == IF r < 18 THEN q
             ELSE IF r > 18 THEN q + 1
             ELSE IF q % 2 = 0 THEN q ELSE q + 1
    IN  [fmt |-> ".2f", h |-> IF seconds < 0 THEN 0 - h ELSE h]

\* the text "0" that create_shift writes to Total_Hours
ZeroHours == [fmt |-> "0", h |-> 0]

\* f"SHIFT_{now:%Y%m%d%H%M%S}_{staff_email[:5]}": the second of creation
\* and the first five characters of the email
ShiftId(t, staff_email) == <<t, Slice(staff_email, 5)>>

\* the row create_shift appends
NewShiftRow(t, staff_email, date, scheduled_start, scheduled_end) ==
    [shift_id        |-> ShiftId(t, staff_email),
     staff_email     |-> _sanitize_for_csv(staff_email),
     date            |-> _sanitize_for_csv(date),
     scheduled_start |-> _sanitize_for_csv(scheduled_start),
     scheduled_end   |-> _sanitize_for_csv(scheduled_end),
     check_in_time   |-> NoTime,
     check_out_time  |-> NoTime,
     break_start     |-> NoTime,
     break_end       |-> NoTime,
     total_hours     |-> ZeroHours,
     status          |-> "scheduled",
     notes           |-> <<>>,
     early_checkout  |-> "NO"]

\* create_shift: read all rows, append the new one, write all rows back
create_shift(csv, t, staff_email, date, scheduled_start, scheduled_end) ==
    Append(csv, NewShiftRow(t, staff_email, date, scheduled_start, scheduled_end))

\* get_staff_shifts: rows of the staff member (email compared in lower
\* case), optionally of one date (text compared as stored).  The code
\* returns them sorted by (date, scheduled_start); callers modelled here
\* only test whether the result is empty.
get_staff_shifts(csv, staff_email, date_filter) ==
    SelectSeq(csv, LAMBDA r :
        /\ Lower(r.staff_email) = Lower(staff_email)
        /\ (date_filter # <<>> => r.date = date_filter))

\* keyword arguments of update_shift_status left at None
NoArg == [set |-> FALSE]
Arg(v) == [set |-> TRUE, v |-> v]

\* a truthy argument: given and not empty
Given(a) == a.set /\ a.v # <<>>

\* (mutation) the break is not subtracted
TotalSeconds_NoBreak(row) ==
    Strptime(row.check_out_time) - Strptime(row.check_in_time)

\* total hours from the row's timestamps: check-out minus check-in, minus
\* the break when both break stamps are present and parse
TotalSeconds(row) ==
    LET break_duration ==
            IF row.break_start # NoTime /\ row.break_end # NoTime
            THEN IF Strptime(row.break_start) = ValueError
                    \/ Strptime(row.break_end) = ValueError
                 THEN 0
                 ELSE Strptime(row.break_end) - Strptime(row.break_start)
            ELSE 0
    IN  Strptime(row.check_out_time) - Strptime(row.check_in_time) - break_duration

\* (mutation) a row that is already completed is not written
UpdateRow_KeepCompleted(row, c) ==
    LET r1 == [row EXCEPT
                 !.status         = c.status,
                 !.check_in_time  = IF Given(c.check_in_time) THEN c.check_in_time.v ELSE @,
                 !.check_out_time = IF Given(c.check_out_time) THEN c.check_out_time.v ELSE @,
                 !.break_start    = IF Given(c.break_start) THEN c.break_start.v ELSE @,
                 !.break_end      = IF Given(c.break_end) THEN c.break_end.v ELSE @,
                 !.notes          = IF c.notes.set THEN _sanitize_for_csv(c.notes.v) ELSE @,
                 !.early_checkout = IF c.early_checkout THEN "YES" ELSE @]
    IN  IF row.status = "completed" THEN row
        ELSE IF /\ r1.check_in_time # NoTime /\ r1.check_out_time # NoTime
                /\ Strptime(r1.check_in_time) # ValueError
                /\ Strptime(r1.check_out_time) # ValueError
        THEN [r1 EXCEPT !.total_hours = Format2(TotalSeconds(r1))]
        ELSE r1

\* what update_shift_status does to a row whose Shift_ID matches; the
\* hours are computed when both check stamps are present and parse
UpdateRow(row, c) ==
    LET r1 == [row EXCEPT
                 !.status         = c.status,
                 !.check_in_time  = IF Given(c.check_in_time) THEN c.check_in_time.v ELSE @,
                 !.check_out_time = IF Given(c.check_out_time) THEN c.check_out_time.v ELSE @,
                 !.break_start    = IF Given(c.break_start) THEN c.break_start.v ELSE @,
                 !.break_end      = IF Given(c.break_end) THEN c.break_end.v ELSE @,
                 !.notes          = IF c.notes.set THEN _sanitize_for_csv(c.notes.v) ELSE @,
                 !.early_checkout = IF c.early_checkout THEN "YES" ELSE @]
    IN  IF /\ r1.check_in_time # NoTime /\ r1.check_out_time # NoTime
           /\ Strptime(r1.check_in_time) # ValueError
           /\ Strptime(r1.check_out_time) # ValueError
        THEN [r1 EXCEPT !.total_hours = Format2(TotalSeconds(r1))]
        ELSE r1

\* update_shift_status: every row with this Shift_ID is updated and all
\* rows are written back; False when no row has the id
update_shift_status(csv, c) ==
    IF \E i \in 1..Len(csv) : csv[i].shift_id = c.shift_id
    THEN [ok |-> TRUE,
          csv |-> [i \in 1..Len(csv) |->
                     IF csv[i].shift_id = c.shift_id THEN UpdateRow(csv[i], c)
                     ELSE csv[i]]]
    ELSE [ok |-> FALSE, csv |-> csv]

\* a call of update_shift_status with its keyword arguments
Call(shift_id, status) ==
    [shift_id |-> shift_id, status |-> status,
     check_in_time |-> NoArg, check_out_time |-> NoArg,
     break_start |-> NoArg, break_end |-> NoArg,
     notes |-> NoArg, early_checkout |-> FALSE]

-----------------------------------------------------------------------------
(* Time-clock routes: app.py.  Each route is the decision it takes on the *)
(* rows it has just loaded: a refusal, or the update_shift_status call    *)
(* it goes on to make.                                                    *)

\* next((s for s in my_truck.shifts if s.get("shift_id") == shift_id), None)
FindShift(list, shift_id) ==
    LET hits == {i \in 1..Len(list) : list[i].shift_id = shift_id}
    IN  IF hits = {} THEN None
        ELSE list[CHOOSE i \in hits : \A j \in hits : i <= j]

Refuse(m) == [go |-> FALSE, msg |-> m]
Proceed(c) == [go |-> TRUE, call |-> c]

MsgBadId      == <<"Invalid shift ID.">>
MsgNotFound   == <<"Shift not found.">>
MsgNotYours   == <<"This is not your shift.">>
MsgNotAuth    == <<"Shift not found or not authorized.">>
MsgNotSched   == <<"This shift has already been checked in or completed.">>
MsgNotIn      == <<"You must be checked in to check out.">>
MsgNoBreak    == <<"You must be checked in to start a break.">>
MsgNotOnBreak == <<"You're not currently on break.">>
MsgDone       == <<"success">>
MsgError      == <<"error">>

NotOwner(shift, user_email) == Lower(shift.staff_email) # Lower(user_email)

\* (mutation) the status guard is missing
time_clock_checkin_NoGuard(list, t, user_email, shift_id) ==
    LET shift == FindShift(list, shift_id)
    IN  IF shift_id = <<>> THEN Refuse(MsgBadId)
        ELSE IF shift = None THEN Refuse(MsgNotFound)
        ELSE IF NotOwner(shift, user_email) THEN Refuse(MsgNotYours)
        ELSE Proceed([Call(shift_id, "checked_in") EXCEPT
                        !.check_in_time = Arg(Strftime(t))])

time_clock_checkin(list, t, user_email, shift_id) ==
    LET shift == FindShift(list, shift_id)
    IN  IF shift_id = <<>> THEN Refuse(MsgBadId)
        ELSE IF shift = None THEN Refuse(MsgNotFound)
        ELSE IF NotOwner(shift, user_email) THEN Refuse(MsgNotYours)
        ELSE IF shift.status # "scheduled" THEN Refuse(MsgNotSched)
        ELSE Proceed([Call(shift_id, "checked_in") EXCEPT
                        !.check_in_time = Arg(Strftime(t))])

time_clock_checkout(list, t, user_email, shift_id) ==
    LET shift == FindShift(list, shift_id)
    IN  IF shift_id = <<>> THEN Refuse(MsgBadId)
        ELSE IF shift = None THEN Refuse(MsgNotFound)
        ELSE IF NotOwner(shift, user_email) THEN Refuse(MsgNotYours)
        ELSE IF shift.status \notin {"checked_in", "on_break"} THEN Refuse(MsgNotIn)
        ELSE Proceed([Call(shift_id, "completed") EXCEPT
                        !.check_out_time = Arg(Strftime(t))])

time_clock_break(list, t, user_email, shift_id) ==
    LET shift == FindShift(list, shift_id)
    IN  IF shift_id = <<>> THEN Refuse(MsgBadId)
        ELSE IF shift = None \/ NotOwner(shift, user_email) THEN Refuse(MsgNotAuth)
        ELSE IF shift.status # "checked_in" THEN Refuse(MsgNoBreak)
        ELSE Proceed([Call(shift_id, "on_break") EXCEPT
                        !.break_start = Arg(Strftime(t))])

time_clock_break_end(list, t, user_email, shift_id) ==
    LET shift == FindShift(list, shift_id)
    IN  IF shift_id = <<>> THEN Refuse(MsgBadId)
        ELSE IF shift = None \/ NotOwner(shift, user_email) THEN Refuse(MsgNotAuth)
        ELSE IF shift.status # "on_break" THEN Refuse(MsgNotOnBreak)
        ELSE Proceed([Call(shift_id, "checked_in") EXCEPT
                        !.break_end = Arg(Strftime(t))])

\* (mutation) early check-out ends in a status of its own
time_clock_checkout_early_OwnState(list, t, user_email, shift_id) ==
    LET shift == FindShift(list, shift_id)
    IN  IF shift_id = <<>> THEN Refuse(MsgBadId)
        ELSE IF shift = None THEN Refuse(MsgNotFound)
        ELSE IF NotOwner(shift, user_email) THEN Refuse(MsgNotYours)
        ELSE IF shift.status \notin {"checked_in", "on_break"} THEN Refuse(MsgNotIn)
        ELSE Proceed([Call(shift_id, "completed_early") EXCEPT
                        !.check_out_time = Arg(Strftime(t)),
                        !.early_checkout = TRUE])

time_clock_checkout_early(list, t, user_email, shift_id) ==
    LET shift == FindShift(list, shift_id)
    IN  IF shift_id = <<>> THEN Refuse(MsgBadId)
        ELSE IF shift = None THEN Refuse(MsgNotFound)
        ELSE IF NotOwner(shift, user_email) THEN Refuse(MsgNotYours)
        ELSE IF shift.status \notin {"checked_in", "on_break"} THEN Refuse(MsgNotIn)
        ELSE Proceed([Call(shift_id, "completed") EXCEPT
                        !.check_out_time = Arg(Strftime(t)),
                        !.early_checkout = TRUE])

\* (mutation) saving a note puts the shift back to scheduled
add_shift_note_Reset(list, user_email, shift_id, notes) ==
    LET shift == FindShift(list, shift_id)
    IN  IF shift_id = <<>> THEN Refuse(MsgBadId)
        ELSE IF shift = None THEN Refuse(MsgNotFound)
        ELSE IF NotOwner(shift, user_email) THEN Refuse(MsgNotYours)
        ELSE Proceed([Call(shift_id, "scheduled") EXCEPT
                        !.notes = Arg(Strip(notes))])

add_shift_note(list, user_email, shift_id, notes) ==
    LET shift == FindShift(list, shift_id)
    IN  IF shift_id = <<>> THEN Refuse(MsgBadId)
        ELSE IF shift = None THEN Refuse(MsgNotFound)
        ELSE IF NotOwner(shift, user_email) THEN Refuse(MsgNotYours)
        ELSE Proceed([Call(shift_id, shift.status) EXCEPT
                        !.notes = Arg(Strip(notes))])

TimeClockOps ==
    {"check_in", "check_out", "start_break", "end_break", "check_out_early",
     "add_note"}

\* the route of a time-clock request
Route(op, list, t, user_email, shift_id, notes) ==
    CASE op = "check_in"        -> time_clock_checkin(list, t, user_email, shift_id)
      [] op = "check_out"       -> time_clock_checkout(list, t, user_email, shift_id)
      [] op = "start_break"     -> time_clock_break(list, t, user_email, shift_id)
      [] op = "end_break"       -> time_clock_break_end(list, t, user_email, shift_id)
      [] op = "check_out_early" -> time_clock_checkout_early(list, t, user_email, shift_id)
      [] op = "add_note"        -> add_shift_note(list, user_email, shift_id, notes)

MsgFillAll   == <<"Please fill in all fields.">>
MsgPast      == <<"Cannot claim shifts in the past.">>
MsgBadDate   == <<"Invalid date format.">>
MsgHaveShift == <<"You already have a shift on this date.">>
MsgClaimed   == <<"Shift claimed">>

\* POST /staff/claim-shift: the outcome and the rows it leaves in the CSV
claim_shift(csv, t, user_email, date_in, start_in, end_in) ==
    LET date_str   == Strip(date_in)
        start_time == Strip(start_in)
        end_time   == Strip(end_in)
        ord        == StrpDate(date_str)
        refuse(m, l) == [ok |-> FALSE, msg |-> m, csv |-> csv, loaded |-> l]
    IN  IF date_str = <<>> \/ start_time = <<>> \/ end_time = <<>>
        THEN refuse(MsgFillAll, FALSE)
        ELSE IF ord = ValueError THEN refuse(MsgBadDate, FALSE)
        ELSE IF ord < ToOrdinal(2025, 1, 6) + (t \div 86400)
             THEN refuse(MsgPast, FALSE)
        ELSE IF get_staff_shifts(csv, user_email, date_str) # <<>>
             THEN refuse(MsgHaveShift, TRUE)
        ELSE [ok |-> TRUE, msg |-> MsgClaimed,
              csv |-> create_shift(csv, t, user_email, date_str, start_time, end_time),
              loaded |-> TRUE]

-----------------------------------------------------------------------------
(* The time-clock specification: requests handled one after another *)

SessionEmails == {Alice, Alice2}
Sun05 == <<"2","0","2","5","-","0","1","-","0","5">>
ClaimDates == {Tue07, Tue07Short, Sun05, Feb30}
ShiftDates == {Tue07}
Slot17 == <<"1","7",":","0","0">>
NoteInputs == {<<"n"," ">>}
TickSteps == {1800}

\* the shift ids the staff pages offer
ShiftIdInputs == {shiftsCsv[i].shift_id : i \in 1..Len(shiftsCsv)}

ShiftFrame == UNCHANGED <<others, usersCsv, schedulesCsv, schedules, menuCsv,
                          menu_items, reqs, overlapped>>

\* time passes
Tick(dt) ==
    /\ now + dt <= MaxTicks * 1800
    /\ now' = now + dt
    /\ UNCHANGED <<shiftsCsv, shifts, inp, resp, plan, stage>>
    /\ ShiftFrame

\* POST /staff/claim-shift, from the route to the reply
ClaimReq(user_email, date_in) ==
    /\ LET r == claim_shift(shiftsCsv, now, user_email, date_in, Slot09, Slot17)
       IN  /\ inp' = [op |-> "claim", user_email |-> user_email, date |-> date_in]
           /\ resp' = [ok |-> r.ok, msg |-> r.msg]
           /\ shiftsCsv' = r.csv
           /\ shifts' = IF r.loaded THEN r.csv ELSE shifts
    /\ UNCHANGED now
    /\ ShiftFrame

ClaimShift(user_email, date_in) ==
    /\ Len(shiftsCsv) < MaxShifts
    /\ ClaimReq(user_email, date_in)
    /\ UNCHANGED <<plan, stage>>

\* one time-clock request, from the route to the reply
TimeClockReq(op, user_email, shift_id, notes) ==
    /\ LET d == Route(op, shiftsCsv, now, user_email, shift_id, notes)
           u == update_shift_status(shiftsCsv, d.call)
       IN  /\ inp' = [op |-> op, user_email |-> user_email, shift_id |-> shift_id]
           /\ IF d.go
              THEN /\ shiftsCsv' = u.csv
                   /\ resp' = [ok |-> u.ok, msg |-> IF u.ok THEN MsgDone ELSE MsgError]
              ELSE /\ shiftsCsv' = shiftsCsv
                   /\ resp' = [ok |-> FALSE, msg |-> d.msg]
           /\ shifts' = IF shift_id = <<>> THEN shifts ELSE shiftsCsv'
    /\ UNCHANGED now
    /\ ShiftFrame

TimeClock(op, user_email, shift_id, notes) ==
    /\ TimeClockReq(op, user_email, shift_id, notes)
    /\ UNCHANGED <<plan, stage>>

NextShift ==
    \/ \E dt \in TickSteps : Tick(dt)
    \/ \E u \in SessionEmails, d \in ShiftDates : ClaimShift(u, d)
    \/ \E op \in TimeClockOps, u \in SessionEmails, id \in ShiftIdInputs,
          n \in NoteInputs : TimeClock(op, u, id, n)

SpecShift == Init /\ [][NextShift]_vars

\* claiming shifts only, with every spelling of the date
NextClaim ==
    \/ \E dt \in TickSteps : Tick(dt)
    \/ \E u \in SessionEmails, d \in ClaimDates : ClaimShift(u, d)

SpecClaim == Init /\ [][NextClaim]_vars

-----------------------------------------------------------------------------
(* The shift lifecycle: claim, check in, start break, end break, check   *)
(* out, at four clock readings check-in <= break start <= break end <=   *)
(* check-out                                                             *)

\* 09:00:00, 09:07:30, 09:20:00, 12:00:00, 12:30:00, 17:00:00 and
\* 09:00:00 of the next day
LcTimes == {32400, 32850, 33600, 43200, 45000, 61200, 118800}

Plans ==
    {p \in [1..4 -> LcTimes] : p[1] <= p[2] /\ p[2] <= p[3] /\ p[3] <= p[4]}

InitLifecycle ==
    /\ usersCsv = Roster
    /\ schedulesCsv = <<>>
    /\ schedules = <<>>
    /\ shiftsCsv = <<>>
    /\ shifts = <<>>
    /\ plan \in Plans
    /\ now = plan[1]
    /\ menuCsv = [exists |-> TRUE, rows |-> <<>>]
    /\ menu_items = <<>>
    /\ inp = NoCall
    /\ resp = NoCall
    /\ reqs = <<>>
    /\ overlapped = FALSE
    /\ stage = 0
    /\ OthersInit

LcShiftId == ShiftId(plan[1], Alice)

LcClaim ==
    /\ stage = 0
    /\ ClaimReq(Alice, Tue07)
    /\ stage' = 1
    /\ UNCHANGED plan

LcCheckIn ==
    /\ stage = 1
    /\ TimeClockReq("check_in", Alice, LcShiftId, <<>>)
    /\ stage' = 2
    /\ UNCHANGED plan

\* the clock reaches the next reading of the plan
LcAdvance ==
    /\ stage \in {2, 4, 6}
    /\ now' = plan[(stage \div 2) + 1]
    /\ stage' = stage + 1
    /\ UNCHANGED <<shiftsCsv, shifts, inp, resp, plan>>
    /\ ShiftFrame

LcStartBreak ==
    /\ stage = 3
    /\ TimeClockReq("start_break", Alice, LcShiftId, <<>>)
    /\ stage' = 4
    /\ UNCHANGED plan

LcEndBreak ==
    /\ stage = 5
    /\ TimeClockReq("end_break", Alice, LcShiftId, <<>>)
    /\ stage' = 6
    /\ UNCHANGED plan

LcCheckOut ==
    /\ stage = 7
    /\ TimeClockReq("check_out", Alice, LcShiftId, <<>>)
    /\ stage' = 8
    /\ UNCHANGED plan

NextLifecycle ==
    \/ LcClaim \/ LcCheckIn \/ LcAdvance \/ LcStartBreak \/ LcEndBreak
    \/ LcCheckOut

SpecLifecycle == InitLifecycle /\ [][NextLifecycle]_vars

-----------------------------------------------------------------------------
(* Time-clock requests on a stored shift whose timestamp cells may be   *)
(* empty or may hold text that does not parse (shifts.csv is a file     *)
(* that is also edited outside the program).  The clock reads 10:00:00. *)

SoftStamps   == {NoTime, <<0, 32400>>, Malformed}
SoftStatuses == {"scheduled", "checked_in", "on_break"}
SoftHours    == {ZeroHours, Format2(3600)}

SoftRows ==
    {[NewShiftRow(0, Alice, Tue07, Slot09, Slot17) EXCEPT
        !.status = st, !.check_in_time = ci, !.check_out_time = co,
        !.break_start = bs, !.break_end = be, !.total_hours = th] :
     st \in SoftStatuses, ci \in SoftStamps, co \in SoftStamps,
     bs \in SoftStamps, be \in SoftStamps, th \in SoftHours}

InitSoft ==
    /\ usersCsv = Roster
    /\ schedulesCsv = <<>>
    /\ schedules = <<>>
    /\ shiftsCsv \in {<<r>> : r \in SoftRows}
    /\ shifts = shiftsCsv
    /\ now = 36000
    /\ menuCsv = [exists |-> TRUE, rows |-> <<>>]
    /\ menu_items = <<>>
    /\ inp = NoCall
    /\ resp = NoCall
    /\ reqs = <<>>
    /\ overlapped = FALSE
    /\ plan = <<>>
    /\ stage = 0
    /\ OthersInit

NextSoft ==
    \E op \in TimeClockOps, id \in ShiftIdInputs, n \in NoteInputs :
        TimeClock(op, Alice, id, n)

SpecSoft == InitSoft /\ [][NextSoft]_vars

-----------------------------------------------------------------------------
(* Time-clock requests handled concurrently.  A request is two steps:    *)
(* the route loads the rows and takes its decision; update_shift_status  *)
(* then reads, changes and rewrites the rows as they are by then.        *)

Workers == {1, 2}

Idle == [pc |-> "idle"]

\* the rows after Alice has claimed a shift for 2025-01-07 at time 0
InitConc ==
    /\ usersCsv = Roster
    /\ schedulesCsv = <<>>
    /\ schedules = <<>>
    /\ shiftsCsv = create_shift(<<>>, 0, Alice, Tue07, Slot09, Slot17)
    /\ shifts = shiftsCsv
    /\ now = 0
    /\ menuCsv = [exists |-> TRUE, rows |-> <<>>]
    /\ menu_items = <<>>
    /\ inp = NoCall
    /\ resp = NoCall
    /\ reqs = [w \in Workers |-> Idle]
    /\ overlapped = FALSE
    /\ plan = <<>>
    /\ stage = 0
    /\ OthersInit

ConcFrame == UNCHANGED <<others, usersCsv, schedulesCsv, schedules, menuCsv,
                         menu_items, plan, stage>>

\* the route, up to its call of update_shift_status
Begin(w, op, user_email, shift_id, notes) ==
    /\ reqs[w] = Idle
    /\ LET d == Route(op, shiftsCsv, now, user_email, shift_id, notes)
       IN  /\ reqs' = IF d.go THEN [reqs EXCEPT ![w] = [pc |-> "update", call |-> d.call]]
                      ELSE reqs
           /\ resp' = IF d.go THEN resp ELSE [ok |-> FALSE, msg |-> d.msg]
           /\ overlapped' = (overlapped \/ (d.go /\ \E v \in Workers : reqs[v] # Idle))
    /\ inp' = [op |-> op, user_email |-> user_email, shift_id |-> shift_id]
    /\ shifts' = IF shift_id = <<>> THEN shifts ELSE shiftsCsv
    /\ UNCHANGED <<shiftsCsv, now>>
    /\ ConcFrame

\* update_shift_status and the reply
Finish(w) ==
    /\ reqs[w] # Idle
    /\ LET u == update_shift_status(shiftsCsv, reqs[w].call)
       IN  /\ shiftsCsv' = u.csv
           /\ shifts' = u.csv
           /\ resp' = [ok |-> u.ok, msg |-> IF u.ok THEN MsgDone ELSE MsgError]
    /\ reqs' = [reqs EXCEPT ![w] = Idle]
    /\ UNCHANGED <<inp, now, overlapped>>
    /\ ConcFrame

ConcTick(dt) ==
    /\ now + dt <= MaxTicks * 1800
    /\ now' = now + dt
    /\ UNCHANGED <<shiftsCsv, shifts, inp, resp, reqs, overlapped>>
    /\ ConcFrame

NextConc ==
    \/ \E dt \in TickSteps : ConcTick(dt)
    \/ \E w \in Workers, op \in TimeClockOps, id \in ShiftIdInputs,
          n \in NoteInputs : Begin(w, op, Alice, id, n)
    \/ \E w \in Workers : Finish(w)

SpecConc == InitConc /\ [][NextConc]_vars

-----------------------------------------------------------------------------
(* Booking requests handled concurrently by the threads of one process,  *)
(* which share the FoodTruck object.  A request is three steps:          *)
(* book_helper's validation up to and including is_time_slot_available   *)
(* (which reloads the in-memory list); book_schedule's scan of the       *)
(* in-memory list; the append to the CSV and to the in-memory list.      *)

ConcEmails == {Alice, Bob}
ConcDates  == {Tue07, Mon06}
ConcSlots  == {Slot09, Slot10}

InitBookConc ==
    /\ usersCsv = Roster
    /\ schedulesCsv = <<>>
    /\ schedules = <<>>
    /\ shiftsCsv = <<>>
    /\ shifts = <<>>
    /\ now = 0
    /\ menuCsv = [exists |-> TRUE, rows |-> <<>>]
    /\ menu_items = <<>>
    /\ inp = NoCall
    /\ resp = NoCall
    /\ reqs = [w \in Workers |-> Idle]
    /\ overlapped = FALSE
    /\ plan = <<>>
    /\ stage = 0
    /\ OthersInit

BookConcFrame == UNCHANGED <<others, usersCsv, shiftsCsv, shifts, now, menuCsv,
                             menu_items, plan, stage>>

InFlight(w) == reqs[w].pc \in {"scan", "append"}

\* book_helper up to its call of book_schedule
BookBegin(w, manager, date_str, time_slot, staff_email) ==
    /\ ~InFlight(w)
    /\ Len(schedulesCsv) < MaxSchedules
    /\ LET ord   == StrpDate(date_str)
           staff == get_user_details(staff_email)
           args  == [manager |-> manager, date |-> date_str, time |-> time_slot,
                     staff_email |-> staff_email]
           fail(m) == [pc |-> "done", ok |-> FALSE, msg |-> m, args |-> args]
           reached == /\ ord # ValueError
                      /\ DayName(ord) \in Range(WORKING_DAYS)
                      /\ time_slot \in Range(TIME_SLOTS)
                      /\ staff # None
           r == IF ord = ValueError THEN fail(MsgInvalidDate)
                ELSE IF DayName(ord) \notin Range(WORKING_DAYS)
                     THEN fail(<<DayName(ord), MsgNonWorking>>)
                ELSE IF time_slot \notin Range(TIME_SLOTS) THEN fail(MsgInvalidSlot)
                ELSE IF staff = None THEN fail(MsgNoStaff)
                ELSE IF ~is_time_slot_available(schedulesCsv, staff_email,
                                                date_str, time_slot)
                     THEN fail(MsgConflict)
                ELSE [pc |-> "scan", args |-> args,
                      row |-> ScheduleRow(manager, date_str, time_slot, staff_email,
                                          <<staff.first, staff.last>>,
                                          time_slot \o <<" ","s","h","i","f","t">>)]
       IN  /\ reqs' = [reqs EXCEPT ![w] = r]
           /\ schedules' = IF reached THEN schedulesCsv ELSE schedules
           /\ resp' = IF r.pc = "done" THEN [ok |-> FALSE, msg |-> r.msg] ELSE resp
           /\ overlapped' = (overlapped \/
                               (r.pc = "scan" /\ \E v \in Workers \ {w} : InFlight(v)))
           /\ inp' = [op |-> "book", manager |-> manager, date |-> date_str,
                      time |-> time_slot, staff_email |-> staff_email]
    /\ UNCHANGED schedulesCsv
    /\ BookConcFrame

\* book_schedule's scan of self.schedules
BookScan(w) ==
    /\ reqs[w].pc = "scan"
    /\ LET a == reqs[w].args
           found == AlreadyInMemory(schedules, a.staff_email, a.date, a.time)
       IN  /\ reqs' = [reqs EXCEPT ![w] =
                         IF found
                         THEN [pc |-> "done", ok |-> FALSE, msg |-> MsgBookFailed,
                               args |-> a]
                         ELSE [reqs[w] EXCEPT !.pc = "append"]]
           /\ resp' = IF found THEN [ok |-> FALSE, msg |-> MsgBookFailed] ELSE resp
    /\ UNCHANGED <<schedulesCsv, schedules, inp, overlapped>>
    /\ BookConcFrame

\* (mutation) the write is conditional on the key still being free
BookAppend_Rechecking(w) ==
    /\ reqs[w].pc = "append"
    /\ LET a == reqs[w].args
           taken == \E i \in 1..Len(schedulesCsv) :
                        /\ schedulesCsv[i].staff_email = reqs[w].row.staff_email
                        /\ schedulesCsv[i].date = reqs[w].row.date
                        /\ schedulesCsv[i].time = reqs[w].row.time
       IN  /\ schedulesCsv' = IF taken THEN schedulesCsv
                              ELSE Append(schedulesCsv, reqs[w].row)
           /\ schedules' = IF taken THEN schedules ELSE Append(schedules, reqs[w].row)
           /\ reqs' = [reqs EXCEPT ![w] =
                         [pc |-> "done", ok |-> ~taken,
                          msg |-> IF taken THEN MsgConflict ELSE MsgBooked,
                          args |-> a]]
           /\ resp' = [ok |-> ~taken, msg |-> IF taken THEN MsgConflict ELSE MsgBooked]
    /\ UNCHANGED <<inp, overlapped>>
    /\ BookConcFrame

\* book_schedule's append to the CSV and to self.schedules, and the reply
BookAppend(w) ==
    /\ reqs[w].pc = "append"
    /\ schedulesCsv' = Append(schedulesCsv, reqs[w].row)
    /\ schedules' = Append(schedules, reqs[w].row)
    /\ reqs' = [reqs EXCEPT ![w] =
                  [pc |-> "done", ok |-> TRUE, msg |-> MsgBooked,
                   args |-> reqs[w].args]]
    /\ resp' = [ok |-> TRUE, msg |-> MsgBooked]
    /\ UNCHANGED <<inp, overlapped>>
    /\ BookConcFrame

NextBookConc ==
    \/ \E w \in Workers, m \in Managers, d \in ConcDates, t \in ConcSlots,
          e \in ConcEmails : BookBegin(w, m, d, t, e)
    \/ \E w \in Workers : BookScan(w)
    \/ \E w \in Workers : BookAppend(w)

SpecBookConc == InitBookConc /\ [][NextBookConc]_vars

-----------------------------------------------------------------------------
(* Writers of the shift collection handled concurrently.  create_shift   *)
(* and update_shift_status each read all rows of shifts.csv, change      *)
(* their copy, and write the whole copy back; the read and the write     *)
(* are separate steps.  Alice works on her shift while Alice2 claims     *)
(* one, all within one clock second.                                     *)

WriterOps == {"check_in", "check_out", "claim"}

\* the route: a time-clock decision for Alice, or a claim by Alice2
WriterBegin(w, op) ==
    /\ reqs[w].pc \in {"idle", "done"}
    /\ Len(shiftsCsv) < MaxShifts \/ op # "claim"
    /\ LET id == shiftsCsv[1].shift_id
           d  == IF op = "claim"
                 THEN LET c == claim_shift(shiftsCsv, now, Alice2, Tue07, Slot09, Slot17)
                      IN  IF c.ok THEN [go |-> TRUE] ELSE Refuse(c.msg)
                 ELSE Route(op, shiftsCsv, now, Alice, id, <<>>)
       IN  /\ reqs' = [reqs EXCEPT ![w] =
                         IF ~d.go THEN [pc |-> "done", ok |-> FALSE, op |-> op]
                         ELSE IF op = "claim" THEN [pc |-> "read", op |-> op]
                         ELSE [pc |-> "read", op |-> op, call |-> d.call]]
           /\ resp' = IF d.go THEN resp ELSE [ok |-> FALSE, msg |-> d.msg]
           /\ overlapped' = (overlapped \/
                               (d.go /\ \E v \in Workers \ {w} :
                                           reqs[v].pc \in {"read", "write"}))
    /\ inp' = [op |-> op, user_email |-> IF op = "claim" THEN Alice2 ELSE Alice]
    /\ shifts' = shiftsCsv
    /\ UNCHANGED <<shiftsCsv, now>>
    /\ ConcFrame

\* the writer reads the rows and changes its copy
WriterRead(w) ==
    /\ reqs[w].pc = "read"
    /\ LET rows == IF reqs[w].op = "claim"
                   THEN create_shift(shiftsCsv, now, Alice2, Tue07, Slot09, Slot17)
                   ELSE update_shift_status(shiftsCsv, reqs[w].call).csv
       IN  reqs' = [reqs EXCEPT ![w] = [pc |-> "write", op |-> reqs[w].op, rows |-> rows]]
    /\ UNCHANGED <<shiftsCsv, shifts, now, inp, resp, overlapped>>
    /\ ConcFrame

\* (mutation) the writer stores only the record it changed or added, into
\* the rows as they are at the write
WriterWrite_Merging(w) ==
    /\ reqs[w].pc = "write"
    /\ LET mine == reqs[w].rows
           merged == IF reqs[w].op = "claim"
                     THEN Append(shiftsCsv, mine[Len(mine)])
                     ELSE [i \in 1..Len(shiftsCsv) |->
                             IF i = 1 THEN mine[1] ELSE shiftsCsv[i]]
       IN  /\ shiftsCsv' = merged
           /\ shifts' = merged
    /\ reqs' = [reqs EXCEPT ![w] = [pc |-> "done", ok |-> TRUE, op |-> reqs[w].op]]
    /\ resp' = [ok |-> TRUE, msg |-> MsgDone]
    /\ UNCHANGED <<now, inp, overlapped>>
    /\ ConcFrame

\* the writer writes its copy over the file, reloads, and replies
WriterWrite(w) ==
    /\ reqs[w].pc = "write"
    /\ shiftsCsv' = reqs[w].rows
    /\ shifts' = reqs[w].rows
    /\ reqs' = [reqs EXCEPT ![w] = [pc |-> "done", ok |-> TRUE, op |-> reqs[w].op]]
    /\ resp' = [ok |-> TRUE, msg |-> MsgDone]
    /\ UNCHANGED <<now, inp, overlapped>>
    /\ ConcFrame

NextWriters ==
    \/ \E w \in Workers, op \in WriterOps : WriterBegin(w, op)
    \/ \E w \in Workers : WriterRead(w)
    \/ \E w \in Workers : WriterWrite(w)

SpecWriters == InitConc /\ [][NextWriters]_vars

-----------------------------------------------------------------------------
(* The allergy-check specification: the order and the disclosure are      *)
(* drawn at the start; staff may add menu items before the order is       *)
(* screened.                                                              *)

AllergyAlphabet == {"e", "g", "E", " "}

\* every text over the alphabet of at most MaxText characters
ShortTexts == UNION {[1..k -> AllergyAlphabet] : k \in 0..MaxText}

AllergyPhrases ==
    {<<"a","l","l","e","r","g","i","c"," ","t","o"," ","e","g","g","s">>,
     <<"n","u","t"," ","a","l","l","e","r","g","y">>,
     <<"G","L","U","T","E","N"," ","f","r","e","e">>}

ItemsTexts ==
    {<<"O","r","i","g","i","n","a","l"," ","C","h","i","c","k","e","n"," ">> \o
        <<"S","a","n","d","w","i","c","h"," ","C","o","m","b","o"," ","x","2">>,
     <<"b","u","n"," ","x","1",","," ","T","e","a"," ","x","1">>,
     <<"B","u","n">>,
     <<"F","r","i","e","s">>}

\* what the add-item form can submit: name and allergens field
MenuNames == {<<"B","u","n">>, <<"T","e","a">>}
AllergenFields == {<<"E","g","g">>, <<"e","g","g",","," ","s","o","y">>}

InitAllergy ==
    /\ usersCsv = Roster
    /\ schedulesCsv = <<>>
    /\ schedules = <<>>
    /\ shiftsCsv = <<>>
    /\ shifts = <<>>
    /\ now = 0
    /\ menuCsv \in {MissingFile, File(<<>>)}
    /\ menu_items = <<>>
    /\ inp \in [op : {"safe"}, items_text : ItemsTexts,
                allergy_text : ShortTexts \cup AllergyPhrases]
    /\ resp = NoCall
    /\ reqs = <<>>
    /\ overlapped = FALSE
    /\ plan = <<>>
    /\ stage = 0
    /\ OthersInit

MenuFrame == UNCHANGED <<others, usersCsv, schedulesCsv, schedules, shiftsCsv, shifts,
                         now, reqs, overlapped, plan, stage>>

\* POST /staff/menu/add
AddMenuItem(name_in, allergens_in) ==
    /\ resp = NoCall
    /\ Len(menu_items) < MaxMenu
    /\ LET r == add_menu_item(menuCsv, menu_items, Strip(name_in),
                              ParseAllergens(allergens_in))
       IN  /\ menuCsv' = r.csv
           /\ menu_items' = r.items
    /\ UNCHANGED <<inp, resp>>
    /\ MenuFrame

\* add_order_to_csv screens the order with is_order_safe_for_allergy; the
\* catalog is fetched (and, when the in-memory one is empty, loaded) only
\* after the empty-disclosure return
CheckOrder ==
    /\ resp = NoCall
    /\ LET early == Strip(Lower(inp.allergy_text)) = <<>>
           m == IF early THEN [items |-> menu_items, csv |-> menuCsv]
                ELSE get_menu_items(menu_items, menuCsv)
       IN  /\ menuCsv' = m.csv
           /\ menu_items' = m.items
           /\ resp' = [safe |-> is_order_safe_for_allergy(m.items, inp.items_text,
                                                         inp.allergy_text)]
    /\ UNCHANGED inp
    /\ MenuFrame

NextAllergy ==
    \/ \E n \in MenuNames, a \in AllergenFields : AddMenuItem(n, a)
    \/ CheckOrder

SpecAllergy == InitAllergy /\ [][NextAllergy]_vars

-----------------------------------------------------------------------------
(* Orders: foodtruck.py and app.py.  Of an order the id, the customer's   *)
(* email, the items text, the disclosure, the safety flag and the status  *)
(* are kept.  Ids are numbers in the file and in memory alike: the file   *)
(* holds str(id), which is one-to-one.                                    *)

MaxOrders == 2

\* load_orders_from_csv on a readable file with a Status column
load_orders_from_csv(csv) == csv

\* (mutation) the id is the number of orders still pending, plus one
add_order_to_csv_PendingCount(mem, csv, items, customer_email, items_text, allergy_info) ==
    LET is_safe == is_order_safe_for_allergy(items, items_text, allergy_info)
        is_safe_str == IF is_safe THEN "YES" ELSE "NO"
        order_id == Cardinality({i \in 1..Len(mem) : mem[i].status = "Pending"}) + 1
    IN  [safe |-> is_safe,
         csv |-> Append(csv, [order_id |-> order_id,
                              customer_email |-> _sanitize_for_csv(customer_email),
                              item |-> _sanitize_for_csv(items_text),
                              allergy_info |-> _sanitize_for_csv(allergy_info),
                              is_safe |-> is_safe_str,
                              status |-> "Pending"]),
         mem |-> Append(mem, [order_id |-> order_id,
                              customer_email |-> customer_email,
                              item |-> items_text,
                              allergy_info |-> allergy_info,
                              is_safe |-> is_safe_str,
                              status |-> "Pending"])]

\* add_order_to_csv on a writable file: the row appended to the file, the
\* record appended in memory, and the safety verdict returned
add_order_to_csv(mem, csv, items, customer_email, items_text, allergy_info) ==
    LET is_safe == is_order_safe_for_allergy(items, items_text, allergy_info)
        is_safe_str == IF is_safe THEN "YES" ELSE "NO"
        order_id == Len(mem) + 1
    IN  [safe |-> is_safe,
         csv |-> Append(csv, [order_id |-> order_id,
                              customer_email |-> _sanitize_for_csv(customer_email),
                              item |-> _sanitize_for_csv(items_text),
                              allergy_info |-> _sanitize_for_csv(allergy_info),
                              is_safe |-> is_safe_str,
                              status |-> "Pending"]),
         mem |-> Append(mem, [order_id |-> order_id,
                              customer_email |-> customer_email,
                              item |-> items_text,
                              allergy_info |-> allergy_info,
                              is_safe |-> is_safe_str,
                              status |-> "Pending"])]

valid_statuses == <<"Pending", "Preparation Done", "Ready for Delivery">>

MsgInvalidOrder == <<"Invalid order or status.">>
MsgInvalidStatus == <<"Invalid status.">>
MsgOrderNotFound == <<"Order not found.">>
MsgStaffOnly == <<"Staff portal is restricted to Item7 staff.">>
status_messages ==
    [st \in Range(valid_statuses) |->
        CASE st = "Preparation Done" -> <<"Order marked as preparation complete!">>
          [] st = "Ready for Delivery" -> <<"Order ready for delivery handoff!">>
          [] OTHER -> <<"Order status reset to pending.">>]

\* (mutation) a status update is accepted only when it does not move the
\* order back
update_order_status_ForwardOnly(csv, is_staff, order_id, new_status) ==
    LET rank(st) == CHOOSE k \in 1..3 : valid_statuses[k] = st
        found == \E i \in 1..Len(csv) : csv[i].order_id = order_id.v
    IN  IF ~is_staff THEN [flash |-> MsgStaffOnly, csv |-> csv]
        ELSE IF ~order_id.set \/ new_status = ""
        THEN [flash |-> MsgInvalidOrder, csv |-> csv]
        ELSE IF new_status \notin Range(valid_statuses)
        THEN [flash |-> MsgInvalidStatus, csv |-> csv]
        ELSE IF ~found THEN [flash |-> MsgOrderNotFound, csv |-> csv]
        ELSE IF \E i \in 1..Len(csv) :
                   csv[i].order_id = order_id.v /\ rank(csv[i].status) > rank(new_status)
        THEN [flash |-> MsgInvalidStatus, csv |-> csv]
        ELSE [flash |-> status_messages[new_status],
              csv |-> [i \in 1..Len(csv) |->
                          IF csv[i].order_id = order_id.v
                          THEN [csv[i] EXCEPT !.status = new_status]
                          ELSE csv[i]]]

\* update_order_status (POST /staff/update-order-status): the message
\* flashed and the rows the file holds afterwards
update_order_status(csv, is_staff, order_id, new_status) ==
    LET found == \E i \in 1..Len(csv) : csv[i].order_id = order_id.v
    IN  IF ~is_staff THEN [flash |-> MsgStaffOnly, csv |-> csv]
        ELSE IF ~order_id.set \/ new_status = ""
        THEN [flash |-> MsgInvalidOrder, csv |-> csv]
        ELSE IF new_status \notin Range(valid_statuses)
        THEN [flash |-> MsgInvalidStatus, csv |-> csv]
        ELSE IF ~found THEN [flash |-> MsgOrderNotFound, csv |-> csv]
        ELSE [flash |-> status_messages[new_status],
              csv |-> [i \in 1..Len(csv) |->
                          IF csv[i].order_id = order_id.v
                          THEN [csv[i] EXCEPT !.status = new_status]
                          ELSE csv[i]]]

-----------------------------------------------------------------------------
(* The orders specification: checkouts and staff status updates handled   *)
(* one after another.  The menu file holds one tagged item, loaded at     *)
(* start-up.                                                              *)

OrderItems == {<<"B","u","n"," ","x","1">>}
OrderAllergies == {<<>>, <<"e","g","g","s">>}
OrderIdInputs == {NoArg} \cup {Arg(k) : k \in 1..(MaxOrders + 1)}
StatusInputs == Range(valid_statuses) \cup {"", "Cancelled"}
StartMenu == File(<<MenuCsvRow(<<"B","u","n">>, <<<<"e","g","g">>>>)>>)

InitOrders ==
    /\ usersCsv = Roster
    /\ schedulesCsv = <<>>
    /\ schedules = <<>>
    /\ shiftsCsv = <<>>
    /\ shifts = <<>>
    /\ now = 0
    /\ menuCsv = StartMenu
    /\ menu_items = load_menu_from_csv(StartMenu).items
    /\ inp = NoCall
    /\ resp = NoCall
    /\ reqs = <<>>
    /\ overlapped = FALSE
    /\ plan = <<>>
    /\ stage = 0
    /\ ordersCsv = <<>>
    /\ orders = load_orders_from_csv(ordersCsv)
    /\ dealsCsv = <<>>
    /\ deals = <<>>
    /\ schedulesMode = Usable
    /\ mtimes = <<>>
    /\ _file_timestamps = <<>>
    /\ _cached_data = <<>>
    /\ fresh = <<>>
    /\ ExtrasInit

OrdersFrame == UNCHANGED <<usersCsv, schedulesCsv, schedules, shiftsCsv, shifts,
                           now, reqs, overlapped, plan, stage, dealsCsv, deals,
                           schedulesMode, mtimes, _file_timestamps, _cached_data,
                           fresh, extras>>

\* checkout (POST): the order is added and the orders are loaded again
Checkout(customer_email, items_text, allergy_info) ==
    /\ Len(ordersCsv) < MaxOrders
    /\ LET early == Strip(Lower(allergy_info)) = <<>>
           m == IF early THEN [items |-> menu_items, csv |-> menuCsv]
                ELSE get_menu_items(menu_items, menuCsv)
           a == add_order_to_csv(orders, ordersCsv, m.items, customer_email,
                                 items_text, allergy_info)
       IN  /\ menuCsv' = m.csv
           /\ menu_items' = m.items
           /\ ordersCsv' = a.csv
           /\ orders' = load_orders_from_csv(a.csv)
           /\ inp' = [op |-> "checkout", customer_email |-> customer_email,
                      items_text |-> items_text, allergy_info |-> allergy_info]
           /\ resp' = [safe |-> a.safe, was |-> ""]
    /\ OrdersFrame

\* the status the addressed order had when the request arrived, "" when
\* there is no such order (kept with the response for the properties)
StatusOf(csv, order_id) ==
    IF order_id.set /\ \E i \in 1..Len(csv) : csv[i].order_id = order_id.v
    THEN csv[CHOOSE i \in 1..Len(csv) : csv[i].order_id = order_id.v].status
    ELSE ""

UpdateOrderStatus(is_staff, order_id, new_status) ==
    /\ LET u == update_order_status(load_orders_from_csv(ordersCsv), is_staff,
                                    order_id, new_status)
       IN  /\ ordersCsv' = u.csv
           /\ orders' = load_orders_from_csv(u.csv)
           /\ resp' = [flash |-> u.flash, was |-> StatusOf(ordersCsv, order_id)]
    /\ inp' = [op |-> "update_order_status", is_staff |-> is_staff,
               order_id |-> order_id, status |-> new_status]
    /\ UNCHANGED <<menuCsv, menu_items>>
    /\ OrdersFrame

NextOrders ==
    \/ \E e \in {Alice} : \E it \in OrderItems : \E al \in OrderAllergies :
          Checkout(e, it, al)
    \/ \E st \in BOOLEAN : \E id \in OrderIdInputs : \E s \in StatusInputs :
          UpdateOrderStatus(st, id, s)

SpecOrders == InitOrders /\ [][NextOrders]_vars

-----------------------------------------------------------------------------
(* Deals: foodtruck.py.  Of a deal the id, the creation time, the expiry   *)
(* text and the active flag are kept.  An expiry text is <<>> when empty,  *)
(* <<date>> when it has no time part and <<date, seconds>> when a time of  *)
(* day follows the date; the date part is parsed as strptime parses it.    *)

MaxDeals == 2

UpperChar(c) ==
    IF \E u \in DOMAIN UpperToLower : UpperToLower[u] = c
    THEN CHOOSE u \in DOMAIN UpperToLower : UpperToLower[u] = c
    ELSE c
Upper(s) == [i \in 1..Len(s) |-> UpperChar(s[i])]

\* load_deals_from_csv on a readable file
load_deals_from_csv(csv) ==
    [i \in 1..Len(csv) |->
        [deal_id |-> csv[i].deal_id,
         created_at |-> csv[i].created_at,
         expires_at |-> csv[i].expires_at,
         is_active |-> Upper(csv[i].is_active) = <<"Y","E","S">>]]

\* datetime.strptime(text, "%Y-%m-%d %H:%M:%S"), in seconds of the clock
StrptimeExpiry(text) ==
    IF Len(text) = 2 /\ StrpDate(text[1]) # ValueError
    THEN (StrpDate(text[1]) - ToOrdinal(2025, 1, 6)) * 86400 + text[2]
    ELSE ValueError

\* datetime.strptime(text, "%Y-%m-%d"), as the date's ordinal
StrptimeExpiryDate(text) ==
    IF Len(text) = 1 THEN StrpDate(text[1]) ELSE ValueError

\* the deal is skipped as expired at clock reading t
Expired(deal, t) ==
    LET expires_at == deal.expires_at
    IN  /\ expires_at # <<>>
        /\ IF StrptimeExpiry(expires_at) # ValueError
           THEN StrptimeExpiry(expires_at) < t
           ELSE /\ StrptimeExpiryDate(expires_at) # ValueError
                /\ StrptimeExpiryDate(expires_at)
                      < ToOrdinal(2025, 1, 6) + (t \div 86400)

\* list.sort(key=created_at, reverse=True): newest first, deals created in
\* the same second in their original order
RECURSIVE SortNewestFirst(_)
SortNewestFirst(ds) ==
    IF ds = <<>> THEN <<>>
    ELSE LET top == CHOOSE i \in 1..Len(ds) :
                       \A j \in 1..Len(ds) :
                          \/ ds[j].created_at < ds[i].created_at
                          \/ ds[j].created_at = ds[i].created_at /\ j >= i
             rest == [k \in 1..(Len(ds) - 1) |-> IF k < top THEN ds[k] ELSE ds[k + 1]]
         IN  <<ds[top]>> \o SortNewestFirst(rest)

\* (mutation) an expiry that does not parse counts as expired
get_active_deals_FailClosed(csv, t) ==
    LET loaded == load_deals_from_csv(csv)
        keep(deal) ==
            /\ deal.is_active
            /\ ~Expired(deal, t)
            /\ \/ deal.expires_at = <<>>
               \/ StrptimeExpiry(deal.expires_at) # ValueError
               \/ StrptimeExpiryDate(deal.expires_at) # ValueError
    IN  [deals |-> loaded, active |-> SortNewestFirst(SelectSeq(loaded, keep))]

\* get_active_deals at clock reading t: the list loaded and the list returned
get_active_deals(csv, t) ==
    LET loaded == load_deals_from_csv(csv)
        keep(deal) == deal.is_active /\ ~Expired(deal, t)
    IN  [deals |-> loaded, active |-> SortNewestFirst(SelectSeq(loaded, keep))]

-----------------------------------------------------------------------------
(* The deals specification: the deals file is drawn at the start and the   *)
(* active deals are asked for at 2025-01-07 10:00:00.                      *)

Wed08 == <<"2","0","2","5","-","0","1","-","0","8">>
DealClock == 86400 + 36000
ExpiryTexts ==
    {<<>>, <<Mon06>>, <<Tue07>>, <<Wed08>>, <<Feb30>>, <<Tue07Short>>,
     <<Tue07, 34200>>, <<Tue07, 36000>>, <<Tue07, 37800>>, <<Feb30, 36000>>}
ActiveCells == {<<"Y","E","S">>, <<"y","e","s">>, <<"N","O">>}

\* rows as add_deal_to_csv appends them: creation times do not decrease
DealFiles ==
    UNION {[1..n -> [deal_id : {0}, created_at : {0}, expires_at : ExpiryTexts,
                     is_active : ActiveCells]] : n \in 0..MaxDeals}
DealRows(f) ==
    [i \in 1..Len(f) |-> [f[i] EXCEPT !.deal_id = i, !.created_at = 36000 * (i \div 2)]]

InitDeals ==
    /\ usersCsv = Roster
    /\ schedulesCsv = <<>>
    /\ schedules = <<>>
    /\ shiftsCsv = <<>>
    /\ shifts = <<>>
    /\ now = DealClock
    /\ menuCsv = [exists |-> TRUE, rows |-> <<>>]
    /\ menu_items = <<>>
    /\ inp = NoCall
    /\ resp = NoCall
    /\ reqs = <<>>
    /\ overlapped = FALSE
    /\ plan = <<>>
    /\ stage = 0
    /\ ordersCsv = <<>>
    /\ orders = <<>>
    /\ dealsCsv \in {DealRows(f) : f \in DealFiles}
    /\ deals = load_deals_from_csv(dealsCsv)
    /\ schedulesMode = Usable
    /\ mtimes = <<>>
    /\ _file_timestamps = <<>>
    /\ _cached_data = <<>>
    /\ fresh = <<>>
    /\ ExtrasInit

GetActiveDeals ==
    /\ resp = NoCall
    /\ LET g == get_active_deals(dealsCsv, now)
       IN  /\ deals' = g.deals
           /\ resp' = [active |-> g.active]
    /\ inp' = [op |-> "get_active_deals"]
    /\ UNCHANGED <<usersCsv, schedulesCsv, schedules, shiftsCsv, shifts, now,
                   menuCsv, menu_items, reqs, overlapped, plan, stage,
                   ordersCsv, orders, dealsCsv, schedulesMode, mtimes,
                   _file_timestamps, _cached_data, fresh, extras>>

NextDeals == GetActiveDeals

SpecDeals == InitDeals /\ [][NextDeals]_vars

-----------------------------------------------------------------------------
(* Booking when data/schedules.csv is missing, unreadable or read-only.   *)
(* A call either returns or raises; what it raises is kept in the         *)
(* response.                                                              *)

Returned(v) == [raised |-> "", value |-> v]
Raised(exc) == [raised |-> exc]

\* load_schedules_from_csv: nothing is loaded from a file that is missing
\* or not readable
load_schedules_from_csv(mode, csv) ==
    IF mode.exists /\ mode.readable THEN csv ELSE <<>>

\* book_schedule: a missing file is created by initialize_csv_files before
\* the row is appended; a file that is not writable raises PermissionError
book_schedule(mode, csv, mem, manager, date, time, staff_email, staff_name, work_time) ==
    LET row == ScheduleRow(manager, date, time, staff_email, staff_name, work_time)
    IN  IF AlreadyInMemory(mem, staff_email, date, time)
        THEN [out |-> Returned(FALSE), mode |-> mode, csv |-> csv, mem |-> mem]
        ELSE IF ~mode.exists
        THEN [out |-> Returned(TRUE), mode |-> Usable,
              csv |-> <<row>>, mem |-> Append(mem, row)]
        ELSE IF ~mode.writable
        THEN [out |-> Raised("PermissionError"), mode |-> mode, csv |-> csv, mem |-> mem]
        ELSE [out |-> Returned(TRUE), mode |-> mode,
              csv |-> Append(csv, row), mem |-> Append(mem, row)]

\* book_helper on a schedules file in the given mode: what the call
\* returns or raises, and the file and the in-memory list it leaves
book_helper_on(mode, csv, mem, manager, date_str, time_slot, staff_email, work_time) ==
    LET ord    == StrpDate(date_str)
        staff  == get_user_details(staff_email)
        loaded == load_schedules_from_csv(mode, csv)
        keep(m, l) == [out |-> Returned([ok |-> FALSE, msg |-> m]),
                       mode |-> mode, csv |-> csv, mem |-> l]
    IN  IF ord = ValueError THEN keep(MsgInvalidDate, mem)
        ELSE IF DayName(ord) \notin Range(WORKING_DAYS)
             THEN keep(<<DayName(ord), MsgNonWorking>>, mem)
        ELSE IF time_slot \notin Range(TIME_SLOTS) THEN keep(MsgInvalidSlot, mem)
        ELSE IF staff = None THEN keep(MsgNoStaff, mem)
        ELSE IF ~is_time_slot_available(loaded, staff_email, date_str, time_slot)
             THEN keep(MsgConflict, loaded)
        ELSE LET b == book_schedule(mode, csv, loaded, manager, date_str, time_slot,
                                    staff_email, <<staff.first, staff.last>>,
                                    work_time)
             IN  IF b.out.raised # "" THEN b
                 ELSE [b EXCEPT !.out = Returned(
                          IF b.out.value
                          THEN [ok |-> TRUE, msg |-> MsgBooked]
                          ELSE [ok |-> FALSE, msg |-> MsgBookFailed])]

Modes == {Usable, Mode(FALSE, FALSE, FALSE), Mode(TRUE, TRUE, FALSE),
          Mode(TRUE, FALSE, TRUE), Mode(TRUE, FALSE, FALSE)}
StoredEmails == {Alice, Bob}
StoredDates == {Mon06, Tue07, Feb30}
StoredSlots == {Slot09, Slot10}
StoredFiles ==
    {<<>>, <<ScheduleRow(<<"m">>, Tue07, Slot09, Alice, <<"Al", "Ice">>, <<"8">>)>>}

InitStored ==
    /\ usersCsv = Roster
    /\ schedulesMode \in Modes
    /\ schedulesCsv \in IF schedulesMode.exists THEN StoredFiles ELSE {<<>>}
    /\ schedules = load_schedules_from_csv(schedulesMode, schedulesCsv)
    /\ shiftsCsv = <<>>
    /\ shifts = <<>>
    /\ now = 0
    /\ menuCsv = [exists |-> TRUE, rows |-> <<>>]
    /\ menu_items = <<>>
    /\ inp = NoCall
    /\ resp = NoCall
    /\ reqs = <<>>
    /\ overlapped = FALSE
    /\ plan = <<>>
    /\ stage = 0
    /\ ordersCsv = <<>>
    /\ orders = <<>>
    /\ dealsCsv = <<>>
    /\ deals = <<>>
    /\ mtimes = <<>>
    /\ _file_timestamps = <<>>
    /\ _cached_data = <<>>
    /\ fresh = <<>>
    /\ ExtrasInit

StoredFrame == UNCHANGED <<usersCsv, shiftsCsv, shifts, now, menuCsv, menu_items,
                           reqs, overlapped, plan, stage, ordersCsv, orders,
                           dealsCsv, deals, mtimes, _file_timestamps, _cached_data,
                           fresh, extras>>

BookStored(staff_email, date_str, time_slot) ==
    /\ Len(schedulesCsv) < MaxSchedules
    /\ LET b == book_helper_on(schedulesMode, schedulesCsv, schedules, <<"m">>,
                               date_str, time_slot, staff_email, <<"8">>)
       IN  /\ schedulesMode' = b.mode
           /\ schedulesCsv' = b.csv
           /\ schedules' = b.mem
           /\ resp' = b.out
    /\ inp' = [op |-> "book", staff_email |-> staff_email, date |-> date_str,
               time |-> time_slot]
    /\ StoredFrame

\* get_available_slots: the list is loaded again unless the date is refused
SlotsStored(staff_email, date_str) ==
    /\ LET loaded == load_schedules_from_csv(schedulesMode, schedulesCsv)
           slots == get_available_slots(loaded, staff_email, date_str)
           ord == StrpDate(date_str)
       IN  /\ schedules' = IF ord = ValueError THEN schedules
                           ELSE IF DayName(ord) \notin Range(WORKING_DAYS)
                           THEN schedules ELSE loaded
           /\ resp' = Returned(slots)
    /\ inp' = [op |-> "slots", staff_email |-> staff_email, date |-> date_str]
    /\ UNCHANGED <<schedulesMode, schedulesCsv>>
    /\ StoredFrame

NextStored ==
    \/ \E e \in StoredEmails : \E d \in StoredDates : \E t \in StoredSlots :
          BookStored(e, d, t)
    \/ \E e \in StoredEmails : \E d \in StoredDates : SlotsStored(e, d)

SpecStored == InitStored /\ [][NextStored]_vars

-----------------------------------------------------------------------------
(* CSVCache: utils/csv_cache.py.  The two dicts are functions from paths; *)
(* the file system is the function from each existing path to its         *)
(* modification time.  None is NoArg, a value v is Arg(v).                *)

MaxClock == 2

\* dict[key] = value and dict.pop(key, None)
Put(dict, key, value) ==
    [k \in DOMAIN dict \cup {key} |-> IF k = key THEN value ELSE dict[k]]
Pop(dict, key) == [k \in DOMAIN dict \ {key} |-> dict[k]]

\* (mutation) a file whose modification time equals the recorded one
\* counts as changed
is_file_changed_NotLater(fs, ts, file_path) ==
    IF file_path \notin DOMAIN fs THEN FALSE
    ELSE file_path \notin DOMAIN ts \/ fs[file_path] >= ts[file_path]

\* CSVCache.is_file_changed
is_file_changed(fs, ts, file_path) ==
    IF file_path \notin DOMAIN fs THEN FALSE
    ELSE file_path \notin DOMAIN ts \/ fs[file_path] > ts[file_path]

\* (mutation) the data is stored without the modification time
update_cache_DataOnly(fs, ts, cd, file_path, data) ==
    IF file_path \in DOMAIN fs
    THEN [ts |-> ts,
          cd |-> IF data.set THEN Put(cd, file_path, data.v) ELSE cd]
    ELSE [ts |-> ts, cd |-> cd]

\* CSVCache.update_cache: the two dicts afterwards
update_cache(fs, ts, cd, file_path, data) ==
    IF file_path \in DOMAIN fs
    THEN [ts |-> Put(ts, file_path, fs[file_path]),
          cd |-> IF data.set THEN Put(cd, file_path, data.v) ELSE cd]
    ELSE [ts |-> ts, cd |-> cd]

\* CSVCache.get_cached_data
get_cached_data(fs, ts, cd, file_path) ==
    IF is_file_changed(fs, ts, file_path) THEN NoArg
    ELSE IF file_path \in DOMAIN cd THEN Arg(cd[file_path]) ELSE NoArg

\* (mutation) clearing one path clears every path
clear_cache_All(ts, cd, file_path) ==
    [ts |-> <<>>, cd |-> <<>>]

\* CSVCache.clear_cache: one path when a non-empty path is given, else all
clear_cache(ts, cd, file_path) ==
    IF file_path.set /\ file_path.v # ""
    THEN [ts |-> Pop(ts, file_path.v), cd |-> Pop(cd, file_path.v)]
    ELSE [ts |-> <<>>, cd |-> <<>>]

-----------------------------------------------------------------------------
(* The cache specification: two files are written and deleted while the   *)
(* clock advances, and the cache is updated, asked and cleared.           *)

Paths == {"a.csv", "b.csv"}
CacheData == {"d1", "d2"}

InitCache ==
    /\ usersCsv = Roster
    /\ schedulesCsv = <<>>
    /\ schedules = <<>>
    /\ shiftsCsv = <<>>
    /\ shifts = <<>>
    /\ now = 0
    /\ menuCsv = [exists |-> TRUE, rows |-> <<>>]
    /\ menu_items = <<>>
    /\ inp = NoCall
    /\ resp = NoCall
    /\ reqs = <<>>
    /\ overlapped = FALSE
    /\ plan = <<>>
    /\ stage = 0
    /\ ordersCsv = <<>>
    /\ orders = <<>>
    /\ dealsCsv = <<>>
    /\ deals = <<>>
    /\ schedulesMode = Usable
    /\ mtimes = <<>>
    /\ _file_timestamps = <<>>
    /\ _cached_data = <<>>
    /\ fresh = <<>>
    /\ ExtrasInit

CacheFrame == UNCHANGED <<usersCsv, schedulesCsv, schedules, shiftsCsv, shifts,
                          menuCsv, menu_items, reqs, overlapped, plan, stage,
                          ordersCsv, orders, dealsCsv, deals, schedulesMode,
                          extras>>

\* the clock advances
CacheTick ==
    /\ now < MaxClock
    /\ now' = now + 1
    /\ inp' = [op |-> "tick"]
    /\ UNCHANGED <<resp, mtimes, _file_timestamps, _cached_data, fresh>>
    /\ CacheFrame

\* the file is created or modified: its modification time is the clock's
WriteFile(path) ==
    /\ mtimes' = Put(mtimes, path, now)
    /\ inp' = [op |-> "write", path |-> path]
    /\ fresh' = Pop(fresh, path)
    /\ UNCHANGED <<now, resp, _file_timestamps, _cached_data>>
    /\ CacheFrame

\* the file is deleted
DeleteFile(path) ==
    /\ path \in DOMAIN mtimes
    /\ mtimes' = Pop(mtimes, path)
    /\ inp' = [op |-> "delete", path |-> path]
    /\ fresh' = Pop(fresh, path)
    /\ UNCHANGED <<now, resp, _file_timestamps, _cached_data>>
    /\ CacheFrame

UpdateCache(path, data) ==
    /\ LET u == update_cache(mtimes, _file_timestamps, _cached_data, path, data)
       IN  /\ _file_timestamps' = u.ts
           /\ _cached_data' = u.cd
    /\ inp' = [op |-> "update_cache", path |-> path, data |-> data]
    /\ fresh' = IF data.set /\ path \in DOMAIN mtimes
                THEN Put(fresh, path, data.v) ELSE fresh
    /\ UNCHANGED <<now, resp, mtimes>>
    /\ CacheFrame

ClearCache(file_path) ==
    /\ LET c == clear_cache(_file_timestamps, _cached_data, file_path)
       IN  /\ _file_timestamps' = c.ts
           /\ _cached_data' = c.cd
    /\ inp' = [op |-> "clear_cache", file_path |-> file_path]
    /\ UNCHANGED <<now, resp, mtimes, fresh>>
    /\ CacheFrame

\* is_file_changed and get_cached_data asked for a path
AskCache(path) ==
    /\ resp' = [changed |-> is_file_changed(mtimes, _file_timestamps, path),
                data |-> get_cached_data(mtimes, _file_timestamps, _cached_data, path)]
    /\ inp' = [op |-> "ask", path |-> path]
    /\ UNCHANGED <<now, mtimes, _file_timestamps, _cached_data, fresh>>
    /\ CacheFrame

NextCache ==
    \/ CacheTick
    \/ \E path \in Paths : WriteFile(path)
    \/ \E path \in Paths : DeleteFile(path)
    \/ \E path \in Paths : \E data \in {NoArg} \cup {Arg(d) : d \in CacheData} :
          UpdateCache(path, data)
    \/ \E file_path \in {NoArg} \cup {Arg(path) : path \in Paths} :
          ClearCache(file_path)
    \/ \E path \in Paths : AskCache(path)

SpecCache == InitCache /\ [][NextCache]_vars

-----------------------------------------------------------------------------
(* validate_quantity: utils/validators.py *)

MaxQtyLen == 3

\* int(text) for a str: surrounding whitespace is dropped, one sign may
\* precede the digits, and single underscores may stand between digits
int(text) ==
    LET t == Strip(text)
        signed == t # <<>> /\ t[1] \in {"+", "-"}
        body == IF signed THEN Tail(t) ELSE t
        wellformed ==
            /\ body # <<>>
            /\ \A i \in 1..Len(body) : body[i] \in DOMAIN DigitVal \cup {"_"}
            /\ body[1] # "_" /\ body[Len(body)] # "_"
            /\ \A i \in 1..(Len(body) - 1) : ~(body[i] = "_" /\ body[i + 1] = "_")
        magnitude == ToInt(SelectSeq(body, LAMBDA c : c # "_"))
    IN  IF ~wellformed THEN [ok |-> FALSE]
        ELSE [ok |-> TRUE,
              v |-> IF signed /\ t[1] = "-" THEN 0 - magnitude ELSE magnitude]

MsgQtyRequired == <<"Quantity is required">>
MsgQtyAtLeast(n) == <<"Quantity must be at least", n>>
MsgQtyExceed(n) == <<"Quantity cannot exceed", n>>
MsgQtyWhole == <<"Quantity must be a valid whole number">>

\* (mutation) the largest quantity is accepted one too high
validate_quantity_MaxOff(qty_str, min_value, max_value) ==
    IF qty_str = <<>> THEN [valid |-> FALSE, qty |-> NoArg, msg |-> Arg(MsgQtyRequired)]
    ELSE LET qty == int(qty_str)
         IN  IF ~qty.ok
             THEN [valid |-> FALSE, qty |-> NoArg, msg |-> Arg(MsgQtyWhole)]
             ELSE IF qty.v < min_value
             THEN [valid |-> FALSE, qty |-> NoArg, msg |-> Arg(MsgQtyAtLeast(min_value))]
             ELSE IF qty.v > max_value + 1
             THEN [valid |-> FALSE, qty |-> NoArg, msg |-> Arg(MsgQtyExceed(max_value))]
             ELSE [valid |-> TRUE, qty |-> Arg(qty.v), msg |-> NoArg]

\* validate_quantity: (is_valid, quantity_value, error_message)
validate_quantity(qty_str, min_value, max_value) ==
    IF qty_str = <<>> THEN [valid |-> FALSE, qty |-> NoArg, msg |-> Arg(MsgQtyRequired)]
    ELSE LET qty == int(qty_str)
         IN  IF ~qty.ok
             THEN [valid |-> FALSE, qty |-> NoArg, msg |-> Arg(MsgQtyWhole)]
             ELSE IF qty.v < min_value
             THEN [valid |-> FALSE, qty |-> NoArg, msg |-> Arg(MsgQtyAtLeast(min_value))]
             ELSE IF qty.v > max_value
             THEN [valid |-> FALSE, qty |-> NoArg, msg |-> Arg(MsgQtyExceed(max_value))]
             ELSE [valid |-> TRUE, qty |-> Arg(qty.v), msg |-> NoArg]

\* the default bounds of validate_quantity
QtyMin == 1
QtyMax == 99

QtyAlphabet == {"0", "1", "5", "9", "+", "-", " ", "_", ".", "a"}
QtyTexts == UNION {[1..k -> QtyAlphabet] : k \in 0..MaxQtyLen}

InitQty ==
    /\ usersCsv = Roster
    /\ schedulesCsv = <<>>
    /\ schedules = <<>>
    /\ shiftsCsv = <<>>
    /\ shifts = <<>>
    /\ now = 0
    /\ menuCsv = [exists |-> TRUE, rows |-> <<>>]
    /\ menu_items = <<>>
    /\ inp \in [op : {"validate_quantity"}, qty_str : QtyTexts]
    /\ resp = NoCall
    /\ reqs = <<>>
    /\ overlapped = FALSE
    /\ plan = <<>>
    /\ stage = 0
    /\ OthersInit

ValidateQuantity ==
    /\ resp = NoCall
    /\ resp' = validate_quantity(inp.qty_str, QtyMin, QtyMax)
    /\ UNCHANGED <<others, usersCsv, schedulesCsv, schedules, shiftsCsv, shifts,
                   now, menuCsv, menu_items, inp, reqs, overlapped, plan, stage>>

NextQty == ValidateQuantity

SpecQty == InitQty /\ [][NextQty]_vars

-----------------------------------------------------------------------------
(* create_shift on a shift file that is missing or protected *)

\* FoodTruck.create_shift with the file's permissions: a missing file is
\* created with its header row, and the permissions read before that decide
\* whether the shift is added
create_shift_on(mode, csv, t, staff_email, date, scheduled_start, scheduled_end) ==
    LET made == IF mode.exists THEN mode ELSE Usable
        rows == IF mode.exists THEN csv ELSE <<>>
    IN  IF ~mode.readable \/ ~mode.writable
        THEN [ok |-> FALSE, mode |-> made, csv |-> rows]
        ELSE [ok |-> TRUE, mode |-> made,
              csv |-> create_shift(rows, t, staff_email, date,
                                   scheduled_start, scheduled_end)]

ShiftModes == {Usable, Mode(FALSE, FALSE, FALSE), Mode(TRUE, TRUE, FALSE)}
CreateEmails == {Alice, Alice2, Bob}
CreateDates == {Mon06, Tue07}

InitCreate ==
    /\ usersCsv = Roster
    /\ schedulesCsv = <<>>
    /\ schedules = <<>>
    /\ shiftsMode \in ShiftModes
    /\ shiftsCsv = <<>>
    /\ shifts = <<>>
    /\ now = 0
    /\ menuCsv = [exists |-> TRUE, rows |-> <<>>]
    /\ menu_items = <<>>
    /\ inp = NoCall
    /\ resp = NoCall
    /\ reqs = <<>>
    /\ overlapped = FALSE
    /\ plan = <<>>
    /\ stage = 0
    /\ ordersCsv = <<>>
    /\ orders = <<>>
    /\ dealsCsv = <<>>
    /\ deals = <<>>
    /\ schedulesMode = Usable
    /\ mtimes = <<>>
    /\ _file_timestamps = <<>>
    /\ _cached_data = <<>>
    /\ fresh = <<>>
    /\ cart = <<>>
    /\ _verification_codes = <<>>

CreateFrame == UNCHANGED <<usersCsv, schedulesCsv, schedules, menuCsv, menu_items,
                           reqs, overlapped, plan, stage, ordersCsv, orders,
                           dealsCsv, deals, schedulesMode, mtimes,
                           _file_timestamps, _cached_data, fresh, cart,
                           _verification_codes>>

\* a second passes
CreateTick ==
    /\ now < MaxTicks
    /\ now' = now + 1
    /\ inp' = [op |-> "tick"]
    /\ UNCHANGED <<shiftsMode, shiftsCsv, shifts, resp>>
    /\ CreateFrame

\* create_shift called; the in-memory list is loaded again when it succeeds
CreateShift(staff_email, date) ==
    /\ Len(shiftsCsv) < MaxShifts
    /\ LET c == create_shift_on(shiftsMode, shiftsCsv, now, staff_email, date,
                                Slot09, Slot17)
       IN  /\ shiftsMode' = c.mode
           /\ shiftsCsv' = c.csv
           /\ shifts' = IF c.ok THEN c.csv ELSE shifts
           /\ resp' = [ok |-> c.ok, was |-> shiftsMode]
    /\ inp' = [op |-> "create_shift", staff_email |-> staff_email, date |-> date]
    /\ UNCHANGED now
    /\ CreateFrame

NextCreate ==
    \/ CreateTick
    \/ \E staff_email \in CreateEmails, date \in CreateDates :
          CreateShift(staff_email, date)

SpecCreate == InitCreate /\ [][NextCreate]_vars

-----------------------------------------------------------------------------
(* User accounts: signup, admin add-staff, profile update, remove-staff *)

MaxUsers == 2

\* email.split("@")[1]: the text between the first and the second "@"
AfterAt(email) ==
    LET ats == {i \in 1..Len(email) : email[i] = "@"}
        first == CHOOSE i \in ats : \A j \in ats : i <= j
        later == {i \in ats : i > first}
        stop == IF later = {} THEN Len(email) + 1
                ELSE CHOOSE i \in later : \A j \in later : i <= j
    IN  SubSeq(email, first + 1, stop - 1)

UserRow(email, first, last, role) ==
    [email |-> email, first |-> _sanitize_for_csv(first),
     last |-> _sanitize_for_csv(last), role |-> _sanitize_for_csv(role)]

\* FoodTruck.add_staff_to_csv: the email is stripped and lower-cased and
\* the row appended; no existing row is looked at
add_staff_to_csv(csv, email, first, last, role) ==
    Append(csv, UserRow(Lower(Strip(email)), first, last, role))

STAFF_REGISTRATION_CODE == <<"1", "2", "3", "4">>

\* POST /signup: the rows afterwards and whether the user was registered
signup(email_in, password, account_type, staff_code_in, first_in, last_in) ==
    LET email == Lower(Strip(sanitize_text(email_in)))
        staff_code == Strip(sanitize_text(staff_code_in))
        first == Strip(sanitize_text(first_in))
        last == Strip(sanitize_text(last_in))
        Stay == [ok |-> FALSE, csv |-> usersCsv]
    IN  IF ~Contains(email, <<"@">>) \/ ~Contains(AfterAt(email), <<".">>)
        THEN Stay
        ELSE IF Len(password) < 6 THEN Stay
        ELSE IF first = <<>> \/ last = <<>> THEN Stay
        ELSE IF account_type = "staff"
                /\ (staff_code = <<>> \/ staff_code # STAFF_REGISTRATION_CODE)
        THEN Stay
        ELSE IF get_user_details(email) # None THEN Stay
        ELSE [ok |-> TRUE,
              csv |-> add_staff_to_csv(usersCsv, email, first, last,
                          IF account_type = "staff" THEN <<"s","t","a","f","f">>
                          ELSE <<"c","u","s","t","o","m","e","r">>)]

\* POST /add_staff as the admin: the row is added without a look-up
add_staff_submit(email_in, first_in, last_in) ==
    add_staff_to_csv(usersCsv, sanitize_text(email_in), sanitize_text(first_in),
                     sanitize_text(last_in), <<"s","t","a","f","f">>)

\* FoodTruck.update_user_in_csv on a users file that has the Verified column
\* (load_staff_from_csv adds it): a row whose Email cell equals the email is
\* found, the file is opened for writing with the nine field names that
\* leave Verified out, the header is written and the first row raises
\* ValueError, so the call returns False and the rows are gone.  Without a
\* row, or without rows at all, the file is left as it was.
update_user_in_csv(csv, email) ==
    IF \E i \in 1..Len(csv) : csv[i].email = email
    THEN [updated |-> FALSE, csv |-> <<>>]
    ELSE [updated |-> FALSE, csv |-> csv]

\* POST /update_profile for the user of the session
update_profile(user_email) ==
    IF get_user_details(user_email) = None
    THEN [updated |-> FALSE, csv |-> usersCsv]
    ELSE update_user_in_csv(usersCsv, user_email)

\* POST /staff/remove-staff: every row whose email, stripped and in lower
\* case, is the one asked for is dropped
remove_staff(senior_manager_verified, current_user_email, staff_email_in) ==
    LET staff_email == Lower(Strip(sanitize_text(staff_email_in)))
        Stay == [removed |-> FALSE, csv |-> usersCsv]
        keep(row) == Lower(Strip(row.email)) # staff_email
    IN  IF ~senior_manager_verified THEN Stay
        ELSE IF staff_email = <<>> THEN Stay
        ELSE IF staff_email = Lower(current_user_email) THEN Stay
        ELSE IF \A i \in 1..Len(usersCsv) : keep(usersCsv[i]) THEN Stay
        ELSE [removed |-> TRUE, csv |-> SelectSeq(usersCsv, keep)]

Ann == <<"a", "@", "b", ".", "c">>
Ben == <<"d", "@", "b", ".", "c">>
UserEmails == {Ann, <<" ", "A", "@", "B", ".", "c">>, Ben, <<"a", "@", "b">>}
Passwords == {<<>>, <<"s", "e", "c", "r", "e", "t">>}
NameInputs == {<<>>, <<"A", "l">>}
CodeInputs == {<<>>, STAFF_REGISTRATION_CODE}

InitUsers ==
    /\ usersCsv = <<>>
    /\ schedulesCsv = <<>>
    /\ schedules = <<>>
    /\ shiftsMode = Usable
    /\ shiftsCsv = <<>>
    /\ shifts = <<>>
    /\ now = 0
    /\ menuCsv = [exists |-> TRUE, rows |-> <<>>]
    /\ menu_items = <<>>
    /\ inp = NoCall
    /\ resp = NoCall
    /\ reqs = <<>>
    /\ overlapped = FALSE
    /\ plan = <<>>
    /\ stage = 0
    /\ ordersCsv = <<>>
    /\ orders = <<>>
    /\ dealsCsv = <<>>
    /\ deals = <<>>
    /\ schedulesMode = Usable
    /\ mtimes = <<>>
    /\ _file_timestamps = <<>>
    /\ _cached_data = <<>>
    /\ fresh = <<>>
    /\ cart = <<>>
    /\ _verification_codes = <<>>

UsersFrame == UNCHANGED <<schedulesCsv, schedules, shiftsCsv, shifts, now, menuCsv,
                          menu_items, reqs, overlapped, plan, stage, ordersCsv,
                          orders, dealsCsv, deals, schedulesMode, mtimes,
                          _file_timestamps, _cached_data, fresh, shiftsMode,
                          cart, _verification_codes>>

Signup(email, password, account_type, staff_code, first) ==
    /\ Len(usersCsv) < MaxUsers
    /\ LET r == signup(email, password, account_type, staff_code, first, <<"I">>)
       IN  /\ usersCsv' = r.csv
           /\ resp' = [ok |-> r.ok]
    /\ inp' = [op |-> "signup", email |-> email, password |-> password,
               account_type |-> account_type, staff_code |-> staff_code,
               first |-> first]
    /\ UsersFrame

AddStaff(email) ==
    /\ Len(usersCsv) < MaxUsers
    /\ usersCsv' = add_staff_submit(email, <<"A", "l">>, <<"I">>)
    /\ resp' = [ok |-> TRUE]
    /\ inp' = [op |-> "add_staff", email |-> email]
    /\ UsersFrame

UpdateProfile(user_email) ==
    /\ LET r == update_profile(user_email)
       IN  /\ usersCsv' = r.csv
           /\ resp' = [ok |-> r.updated]
    /\ inp' = [op |-> "update_profile", user_email |-> user_email]
    /\ UsersFrame

RemoveStaff(senior_manager_verified, current_user_email, staff_email) ==
    /\ LET r == remove_staff(senior_manager_verified, current_user_email, staff_email)
       IN  /\ usersCsv' = r.csv
           /\ resp' = [ok |-> r.removed]
    /\ inp' = [op |-> "remove_staff", senior |-> senior_manager_verified,
               user_email |-> current_user_email, staff_email |-> staff_email]
    /\ UsersFrame

NextUsers ==
    \/ \E email \in UserEmails, password \in Passwords,
          account_type \in {"staff", "customer"}, staff_code \in CodeInputs,
          first \in NameInputs :
          Signup(email, password, account_type, staff_code, first)
    \/ \E email \in UserEmails : AddStaff(email)
    \/ \E user_email \in {Ann, Ben} : UpdateProfile(user_email)
    \/ \E senior \in BOOLEAN, user \in {Ann, Ben}, staff_email \in UserEmails :
          RemoveStaff(senior, user, staff_email)

SpecUsers == InitUsers /\ [][NextUsers]_vars

-----------------------------------------------------------------------------
(* The session cart: app.py.  The cart maps an item name to its price (in *)
(* tenths) and quantity.  Form values are texts or absent; the values of  *)
(* a JSON body are absent, null, a whole number, a real number (in        *)
(* tenths) or a text.                                                     *)

CartMax == 99

JAbsent == [t |-> "absent"]
JNull == [t |-> "null"]
JNum(n) == [t |-> "num", v |-> n]
JReal(tenths) == [t |-> "real", v |-> tenths]
JStr(text) == [t |-> "str", v |-> text]

Failed == [ok |-> FALSE]
Value(v) == [ok |-> TRUE, v |-> v]

\* float(text), in tenths, for a text without a point, an exponent or a
\* name such as "inf": the texts int() accepts
float(text) == IF int(text).ok THEN Value(int(text).v * 10) ELSE Failed

\* int(x) of a real number: the fraction is dropped
Trunc(tenths) ==
    IF tenths >= 0 THEN tenths \div 10 ELSE 0 - ((0 - tenths) \div 10)

\* int(data.get("qty", 1)) on a JSON value; None raises TypeError
IntOf(j) ==
    CASE j.t = "absent" -> Value(1)
      [] j.t = "null"   -> Failed
      [] j.t = "num"    -> Value(j.v)
      [] j.t = "real"   -> Value(Trunc(j.v))
      [] j.t = "str"    -> int(j.v)

\* float(price) on a JSON value that is not None
FloatOf(j) ==
    CASE j.t = "num"  -> Value(j.v * 10)
      [] j.t = "real" -> Value(j.v)
      [] j.t = "str"  -> float(j.v)

\* quantity < 1 becomes 1, quantity > 99 becomes 99
Clamp(quantity) ==
    IF quantity < 1 THEN 1 ELSE IF quantity > CartMax THEN CartMax ELSE quantity

Unchanged(c) == [ok |-> FALSE, cart |-> c]
Saved(c) == [ok |-> TRUE, cart |-> c]

\* POST /add_to_cart: one more of the item, unless it is at 99 already
add_to_cart(c, item_name, price_str) ==
    IF item_name = "" THEN Unchanged(c)
    ELSE IF ~price_str.set \/ ~float(price_str.v).ok THEN Unchanged(c)
    ELSE IF float(price_str.v).v < 0 THEN Unchanged(c)
    ELSE IF item_name \in DOMAIN c
         THEN IF c[item_name].qty >= CartMax THEN Saved(c)
              ELSE Saved([c EXCEPT ![item_name].qty = @ + 1])
         ELSE Saved(Put(c, item_name, [price |-> float(price_str.v).v, qty |-> 1]))

\* GET /cart/clear
clear_cart(c) == Saved(<<>>)

\* POST /cart/update: the quantity of the form, 1 when the field is absent
update_cart(c, item_name, qty) ==
    LET n == IF qty.set THEN int(qty.v) ELSE Value(1)
    IN  IF item_name = "" THEN Unchanged(c)
        ELSE IF ~n.ok THEN Unchanged(c)
        ELSE IF item_name \notin DOMAIN c THEN Unchanged(c)
        ELSE Saved([c EXCEPT ![item_name].qty = Clamp(n.v)])

\* POST /cart/remove
remove_from_cart(c, item_name) ==
    IF item_name = "" THEN Unchanged(c)
    ELSE IF item_name \in DOMAIN c THEN Saved(Pop(c, item_name))
    ELSE Unchanged(c)

\* (mutation) the sum of the old and the added quantity is stored as it is
api_cart_add_NoCap(c, data) ==
    IF ~data.set THEN Unchanged(c)
    ELSE LET item_name == data.v.item_name
             price == data.v.price
         IN  IF item_name = "" \/ price.t \in {"absent", "null"} THEN Unchanged(c)
             ELSE IF ~FloatOf(price).ok THEN Unchanged(c)
             ELSE IF FloatOf(price).v < 0 THEN Unchanged(c)
             ELSE IF ~IntOf(data.v.qty).ok THEN Unchanged(c)
             ELSE LET quantity == Clamp(IntOf(data.v.qty).v)
                  IN  IF item_name \in DOMAIN c
                      THEN Saved([c EXCEPT ![item_name].qty = @ + quantity])
                      ELSE Saved(Put(c, item_name,
                                     [price |-> FloatOf(price).v, qty |-> quantity]))

\* POST /api/cart: the quantity is clamped to 1..99, added to the item's
\* quantity, and the sum capped at 99
api_cart_add(c, data) ==
    IF ~data.set THEN Unchanged(c)
    ELSE LET item_name == data.v.item_name
             price == data.v.price
         IN  IF item_name = "" \/ price.t \in {"absent", "null"} THEN Unchanged(c)
             ELSE IF ~FloatOf(price).ok THEN Unchanged(c)
             ELSE IF FloatOf(price).v < 0 THEN Unchanged(c)
             ELSE IF ~IntOf(data.v.qty).ok THEN Unchanged(c)
             ELSE LET quantity == Clamp(IntOf(data.v.qty).v)
                  IN  IF item_name \in DOMAIN c
                      THEN Saved([c EXCEPT ![item_name].qty =
                                     IF @ + quantity > CartMax THEN CartMax
                                     ELSE @ + quantity])
                      ELSE Saved(Put(c, item_name,
                                     [price |-> FloatOf(price).v, qty |-> quantity]))

\* PUT /api/cart: the quantity is clamped to 1..99 and stored (the removal
\* on a quantity of zero or less comes after the clamping)
api_cart_update(c, data) ==
    IF ~data.set THEN Unchanged(c)
    ELSE LET item_name == data.v.item_name
         IN  IF item_name = "" THEN Unchanged(c)
             ELSE IF ~IntOf(data.v.qty).ok THEN Unchanged(c)
             ELSE IF item_name \notin DOMAIN c THEN Unchanged(c)
             ELSE LET quantity == Clamp(IntOf(data.v.qty).v)
                  IN  IF quantity <= 0 THEN Saved(Pop(c, item_name))
                      ELSE Saved([c EXCEPT ![item_name].qty = quantity])

\* DELETE /api/cart
api_cart_delete(c, data) ==
    IF ~data.set THEN Unchanged(c)
    ELSE IF data.v.item_name = "" THEN Unchanged(c)
    ELSE IF data.v.item_name \notin DOMAIN c THEN Unchanged(c)
    ELSE Saved(Pop(c, data.v.item_name))

\* POST or DELETE /api/cart/clear
api_cart_clear(c) == Saved(<<>>)

ItemNames == {"", "Taco"}
PriceTexts == {NoArg, Arg(<<"3">>), Arg(<<"-", "1">>), Arg(<<"x">>)}
QtyForms ==
    {NoArg, Arg(<<>>), Arg(<<"0">>), Arg(<<"-", "5">>), Arg(<<"5", "0">>),
     Arg(<<"9", "9">>), Arg(<<"1", "0", "0">>), Arg(<<"x">>)}
JsonPrices == {JAbsent, JNull, JNum(3), JReal(-5), JStr(<<"x">>)}
JsonQtys ==
    {JAbsent, JNull, JNum(0), JNum(-5), JNum(60), JNum(100), JReal(995),
     JReal(5), JStr(<<"7">>), JStr(<<"x">>)}
JsonBodies ==
    {NoArg} \cup
    {Arg([item_name |-> n, price |-> p, qty |-> q]) :
        n \in ItemNames, p \in JsonPrices, q \in JsonQtys}

InitCart ==
    /\ usersCsv = Roster
    /\ schedulesCsv = <<>>
    /\ schedules = <<>>
    /\ shiftsMode = Usable
    /\ shiftsCsv = <<>>
    /\ shifts = <<>>
    /\ now = 0
    /\ menuCsv = [exists |-> TRUE, rows |-> <<>>]
    /\ menu_items = <<>>
    /\ inp = NoCall
    /\ resp = NoCall
    /\ reqs = <<>>
    /\ overlapped = FALSE
    /\ plan = <<>>
    /\ stage = 0
    /\ ordersCsv = <<>>
    /\ orders = <<>>
    /\ dealsCsv = <<>>
    /\ deals = <<>>
    /\ schedulesMode = Usable
    /\ mtimes = <<>>
    /\ _file_timestamps = <<>>
    /\ _cached_data = <<>>
    /\ fresh = <<>>
    /\ cart = <<>>
    /\ _verification_codes = <<>>

CartFrame == UNCHANGED <<usersCsv, schedulesCsv, schedules, shiftsCsv, shifts, now,
                         menuCsv, menu_items, reqs, overlapped, plan, stage,
                         ordersCsv, orders, dealsCsv, deals, schedulesMode, mtimes,
                         _file_timestamps, _cached_data, fresh, shiftsMode,
                         _verification_codes>>

AddToCart(item_name, price_str) ==
    /\ LET r == add_to_cart(cart, item_name, price_str)
       IN  cart' = r.cart /\ resp' = [ok |-> r.ok]
    /\ inp' = [op |-> "add_to_cart"]
    /\ CartFrame

ClearCart ==
    /\ LET r == clear_cart(cart)
       IN  cart' = r.cart /\ resp' = [ok |-> r.ok]
    /\ inp' = [op |-> "clear_cart"]
    /\ CartFrame

UpdateCart(item_name, qty) ==
    /\ LET r == update_cart(cart, item_name, qty)
       IN  cart' = r.cart /\ resp' = [ok |-> r.ok]
    /\ inp' = [op |-> "update_cart"]
    /\ CartFrame

RemoveFromCart(item_name) ==
    /\ LET r == remove_from_cart(cart, item_name)
       IN  cart' = r.cart /\ resp' = [ok |-> r.ok]
    /\ inp' = [op |-> "remove_from_cart"]
    /\ CartFrame

ApiCartAdd(data) ==
    /\ LET r == api_cart_add(cart, data)
       IN  cart' = r.cart /\ resp' = [ok |-> r.ok]
    /\ inp' = [op |-> "api_cart_add"]
    /\ CartFrame

ApiCartUpdate(data) ==
    /\ LET r == api_cart_update(cart, data)
       IN  cart' = r.cart /\ resp' = [ok |-> r.ok]
    /\ inp' = [op |-> "api_cart_update"]
    /\ CartFrame

ApiCartDelete(data) ==
    /\ LET r == api_cart_delete(cart, data)
       IN  cart' = r.cart /\ resp' = [ok |-> r.ok]
    /\ inp' = [op |-> "api_cart_delete"]
    /\ CartFrame

ApiCartClear ==
    /\ LET r == api_cart_clear(cart)
       IN  cart' = r.cart /\ resp' = [ok |-> r.ok]
    /\ inp' = [op |-> "api_cart_clear"]
    /\ CartFrame

NextCart ==
    \/ \E item_name \in ItemNames, price_str \in PriceTexts :
          AddToCart(item_name, price_str)
    \/ ClearCart
    \/ \E item_name \in ItemNames, qty \in QtyForms : UpdateCart(item_name, qty)
    \/ \E item_name \in ItemNames : RemoveFromCart(item_name)
    \/ \E data \in JsonBodies : ApiCartAdd(data)
    \/ \E data \in JsonBodies : ApiCartUpdate(data)
    \/ \E data \in JsonBodies : ApiCartDelete(data)
    \/ ApiCartClear

SpecCart == InitCart /\ [][NextCart]_vars

-----------------------------------------------------------------------------
(* Email verification codes: utils/verification.py.  The clock is in      *)
(* seconds and advances five minutes at a time.                           *)

MaxVerifyTicks == 3
CODE_EXPIRY_MINUTES == 10
MaxAttempts == 5

\* store_verification_code: the entry of the lower-cased email is replaced
store_verification_code(codes, t, email, code) ==
    Put(codes, Lower(email),
        [code |-> code, expires_at |-> t + CODE_EXPIRY_MINUTES * 60,
         attempts |-> 0, max_attempts |-> MaxAttempts])

MsgNoCode == <<"No verification code found. Please request a new code.">>
MsgExpired == <<"Verification code has expired. Please request a new code.">>
MsgTooMany == <<"Too many failed attempts. Please request a new code.">>
MsgInvalidCode(remaining) == <<"Invalid code.", remaining, "attempt(s) remaining.">>
NoMsg == <<>>

\* (mutation) a wrong code is counted but the entry is never removed for it
verify_code_NoLimit(codes, t, email_in, code) ==
    LET email == Lower(email_in)
    IN  IF email \notin DOMAIN codes
        THEN [valid |-> FALSE, msg |-> MsgNoCode, codes |-> codes]
        ELSE LET code_data == codes[email]
             IN  IF t > code_data.expires_at
                 THEN [valid |-> FALSE, msg |-> MsgExpired, codes |-> Pop(codes, email)]
                 ELSE IF code_data.code = code
                 THEN [valid |-> TRUE, msg |-> NoMsg, codes |-> Pop(codes, email)]
                 ELSE [valid |-> FALSE,
                       msg |-> MsgInvalidCode(code_data.max_attempts
                                                - (code_data.attempts + 1)),
                       codes |-> [codes EXCEPT ![email].attempts = @ + 1]]

\* (mutation) a code that was verified stays stored
verify_code_Reusable(codes, t, email_in, code) ==
    LET email == Lower(email_in)
    IN  IF email \notin DOMAIN codes
        THEN [valid |-> FALSE, msg |-> MsgNoCode, codes |-> codes]
        ELSE LET code_data == codes[email]
                 remaining == code_data.max_attempts - (code_data.attempts + 1)
             IN  IF t > code_data.expires_at
                 THEN [valid |-> FALSE, msg |-> MsgExpired, codes |-> Pop(codes, email)]
                 ELSE IF code_data.attempts >= code_data.max_attempts
                 THEN [valid |-> FALSE, msg |-> MsgTooMany, codes |-> Pop(codes, email)]
                 ELSE IF code_data.code = code
                 THEN [valid |-> TRUE, msg |-> NoMsg, codes |-> codes]
                 ELSE IF remaining > 0
                 THEN [valid |-> FALSE, msg |-> MsgInvalidCode(remaining),
                       codes |-> [codes EXCEPT ![email].attempts = @ + 1]]
                 ELSE [valid |-> FALSE, msg |-> MsgTooMany, codes |-> Pop(codes, email)]

\* verify_code: the reply and the stored codes afterwards
verify_code(codes, t, email_in, code) ==
    LET email == Lower(email_in)
    IN  IF email \notin DOMAIN codes
        THEN [valid |-> FALSE, msg |-> MsgNoCode, codes |-> codes]
        ELSE LET code_data == codes[email]
                 remaining == code_data.max_attempts - (code_data.attempts + 1)
             IN  IF t > code_data.expires_at
                 THEN [valid |-> FALSE, msg |-> MsgExpired, codes |-> Pop(codes, email)]
                 ELSE IF code_data.attempts >= code_data.max_attempts
                 THEN [valid |-> FALSE, msg |-> MsgTooMany, codes |-> Pop(codes, email)]
                 ELSE IF code_data.code = code
                 THEN [valid |-> TRUE, msg |-> NoMsg, codes |-> Pop(codes, email)]
                 ELSE IF remaining > 0
                 THEN [valid |-> FALSE, msg |-> MsgInvalidCode(remaining),
                       codes |-> [codes EXCEPT ![email].attempts = @ + 1]]
                 ELSE [valid |-> FALSE, msg |-> MsgTooMany, codes |-> Pop(codes, email)]

VerifyEmails == {Ann, <<"A", "@", "B", ".", "c">>, Ben}
VerifyCodes == {<<"1", "2", "3", "4">>, <<"0", "0", "0", "7">>}

InitVerify ==
    /\ usersCsv = Roster
    /\ schedulesCsv = <<>>
    /\ schedules = <<>>
    /\ shiftsMode = Usable
    /\ shiftsCsv = <<>>
    /\ shifts = <<>>
    /\ now = 0
    /\ menuCsv = [exists |-> TRUE, rows |-> <<>>]
    /\ menu_items = <<>>
    /\ inp = NoCall
    /\ resp = NoCall
    /\ reqs = <<>>
    /\ overlapped = FALSE
    /\ plan = <<>>
    /\ stage = 0
    /\ ordersCsv = <<>>
    /\ orders = <<>>
    /\ dealsCsv = <<>>
    /\ deals = <<>>
    /\ schedulesMode = Usable
    /\ mtimes = <<>>
    /\ _file_timestamps = <<>>
    /\ _cached_data = <<>>
    /\ fresh = <<>>
    /\ cart = <<>>
    /\ _verification_codes = <<>>

VerifyFrame == UNCHANGED <<usersCsv, schedulesCsv, schedules, shiftsCsv, shifts,
                           menuCsv, menu_items, reqs, overlapped, plan, stage,
                           ordersCsv, orders, dealsCsv, deals, schedulesMode,
                           mtimes, _file_timestamps, _cached_data, fresh,
                           shiftsMode, cart>>

\* five minutes pass
VerifyTick ==
    /\ now < MaxVerifyTicks * 300
    /\ now' = now + 300
    /\ inp' = [op |-> "tick"]
    /\ UNCHANGED <<resp, _verification_codes>>
    /\ VerifyFrame

StoreCode(email, code) ==
    /\ _verification_codes' = store_verification_code(_verification_codes, now, email, code)
    /\ inp' = [op |-> "store_verification_code", email |-> email, code |-> code]
    /\ resp' = NoCall
    /\ UNCHANGED now
    /\ VerifyFrame

VerifyCode(email, code) ==
    /\ LET r == verify_code(_verification_codes, now, email, code)
       IN  /\ _verification_codes' = r.codes
           /\ resp' = [valid |-> r.valid, msg |-> r.msg]
    /\ inp' = [op |-> "verify_code", email |-> email, code |-> code]
    /\ UNCHANGED now
    /\ VerifyFrame

NextVerify ==
    \/ VerifyTick
    \/ \E email \in VerifyEmails, code \in VerifyCodes : StoreCode(email, code)
    \/ \E email \in VerifyEmails, code \in VerifyCodes : VerifyCode(email, code)

SpecVerify == InitVerify /\ [][NextVerify]_vars

-----------------------------------------------------------------------------
(* Properties of the booking engine *)

ScheduleKey(r) == <<r.staff_email, r.date, r.time>>

\* C1: no two stored schedule records have the same (staff_email, date,
\* time-slot) triple, comparing the fields as stored.
C1_NoDuplicateSlot ==
    \A i, j \in 1..Len(schedulesCsv) :
        i # j => ScheduleKey(schedulesCsv[i]) # ScheduleKey(schedulesCsv[j])

\* C9: a book call that repeats the arguments of the successful book call
\* before it fails with the slot-conflict message and leaves the stored
\* records as they were.
C9_SecondBookingFails ==
    [][(/\ inp.op = "book" /\ resp.ok
        /\ inp'.op = "book" /\ inp' = inp)
       => (/\ ~resp'.ok
           /\ resp'.msg = MsgConflict
           /\ schedulesCsv' = schedulesCsv)]_vars

IsMonday(date_str) ==
    StrpDate(date_str) # ValueError /\ DayName(StrpDate(date_str)) = "Monday"

\* C10: on a Monday date get_available_slots returns the empty sequence and
\* book fails with the non-working-day message; no schedule record is added.
C10_MondayRejected ==
    [][(inp'.op \in {"book", "slots"} /\ IsMonday(inp'.date))
       => (/\ schedulesCsv' = schedulesCsv
           /\ inp'.op = "slots" => resp'.slots = <<>>
           /\ inp'.op = "book" =>
                 (~resp'.ok /\ resp'.msg = <<"Monday", MsgNonWorking>>))]_vars

\* a Monday booking was refused while the same staff has a stored booking
C10_Witness ==
    /\ inp.op = "book" /\ IsMonday(inp.date) /\ ~resp.ok
    /\ Len(schedulesCsv) > 0

\* a stored record is the one a booking of (staff, date, slot) writes
StoredFor(csv, staff_email, date_str, time_slot) ==
    \E i \in 1..Len(csv) :
        /\ csv[i].staff_email = _sanitize_for_csv(staff_email)
        /\ csv[i].date = _sanitize_for_csv(date_str)
        /\ csv[i].time = _sanitize_for_csv(time_slot)

WorkingDate(date_str) ==
    /\ StrpDate(date_str) # ValueError
    /\ DayName(StrpDate(date_str)) \in Range(WORKING_DAYS)

\* the position of a slot in TIME_SLOTS
SlotIndex(slot) == CHOOSE i \in 1..Len(TIME_SLOTS) : TIME_SLOTS[i] = slot

\* C11: for a parsable working-day date get_available_slots returns exactly
\* the TIME_SLOTS that have no stored record for (staff, date, slot), in
\* TIME_SLOTS order; for a date that does not parse it returns the empty
\* sequence.
C11_AvailableSlotsExact ==
    (inp.op = "slots") =>
       /\ StrpDate(inp.date) = ValueError => resp.slots = <<>>
       /\ WorkingDate(inp.date) =>
            /\ \A i \in 1..Len(resp.slots) : resp.slots[i] \in Range(TIME_SLOTS)
            /\ \A i, j \in 1..Len(resp.slots) :
                   i < j => SlotIndex(resp.slots[i]) < SlotIndex(resp.slots[j])
            /\ \A slot \in Range(TIME_SLOTS) :
                   (slot \in Range(resp.slots))
                     <=> ~StoredFor(schedulesCsv, inp.staff_email, inp.date, slot)

\* what book must answer, by the first check that does not pass
BookVerdict(csv, date_str, time_slot, staff_email) ==
    IF StrpDate(date_str) = ValueError THEN MsgInvalidDate
    ELSE IF ~WorkingDate(date_str)
         THEN <<DayName(StrpDate(date_str)), MsgNonWorking>>
    ELSE IF time_slot \notin Range(TIME_SLOTS) THEN MsgInvalidSlot
    ELSE IF ~\E i \in 1..Len(usersCsv) :
                 Lower(Strip(usersCsv[i].email)) = Lower(Strip(staff_email))
         THEN MsgNoStaff
    ELSE IF StoredFor(csv, staff_email, date_str, time_slot) THEN MsgConflict
    ELSE MsgBooked

BookErrors(day) ==
    <<MsgInvalidDate, <<day, MsgNonWorking>>, MsgInvalidSlot, MsgNoStaff, MsgConflict>>

\* C19: book checks date, weekday, slot, staff, slot not taken, in this
\* order, and fails with the error of the first check that does not pass;
\* the five errors have pairwise distinct messages; a failure adds no
\* schedule record.
C19_BookCheckOrder ==
    [][(inp'.op = "book" /\ resp'.msg # MsgMissing)
       => (/\ resp'.msg = BookVerdict(schedulesCsv, inp'.date, inp'.time,
                                      inp'.staff_email)
           /\ resp'.ok <=> resp'.msg = MsgBooked
           /\ ~resp'.ok => schedulesCsv' = schedulesCsv
           /\ \A day \in Range(DayNames) : \A i, j \in 1..5 :
                  i # j => BookErrors(day)[i] # BookErrors(day)[j])]_vars

DoubleBooked ==
    \E i, j \in 1..Len(schedulesCsv) : i # j /\ ScheduleKey(schedulesCsv[i]) = ScheduleKey(schedulesCsv[j])

\* C12: nothing re-checks the slot at the write: a book request that has
\* passed the availability check and the in-memory scan appends its record
\* and succeeds whatever was stored in the meantime, so two concurrent
\* requests for the same (staff, date, slot) that both pass the checks
\* before either appends both succeed and leave two records with the key.
C12_ConcurrentDoubleBooking ==
    [][\A w \in Workers :
          (reqs[w].pc = "append" /\ reqs'[w].pc = "done")
          => (/\ reqs'[w].ok
              /\ schedulesCsv' = Append(schedulesCsv, reqs[w].row))]_vars

\* both workers booked the same (staff, date, slot) with success, their
\* requests overlapped, and the slot is stored twice
C12_Witness ==
    /\ overlapped
    /\ \A w \in Workers : reqs[w].pc = "done" /\ reqs[w].ok
    /\ reqs[1].args = reqs[2].args
    /\ DoubleBooked

\* the availability of each (staff, date) pair the forms can name
Availability(csv) ==
    [e \in EmailInputs, d \in DateInputs |-> get_available_slots(csv, e, d)]

\* C31: after book succeeds for (staff, date, slot), get_available_slots
\* for that staff and date no longer contains the slot and otherwise
\* equals its value before the booking; the availability of every other
\* (staff, date) pair is unchanged.
C31_BookFrame ==
    [][(inp'.op = "book" /\ resp'.ok)
       => \A e \in EmailInputs, d \in DateInputs :
             Availability(schedulesCsv')[e, d] =
                IF e = inp'.staff_email /\ d = inp'.date
                THEN SelectSeq(Availability(schedulesCsv)[e, d],
                               LAMBDA slot : slot # inp'.time)
                ELSE Availability(schedulesCsv)[e, d]]_vars

\* C35: whenever a booking succeeds, no earlier schedule record denotes the
\* same staff member (email compared ignoring letter case and surrounding
\* whitespace), the same calendar date and the same slot.
C35_NoRespelledDouble ==
    [][(inp'.op = "book" /\ resp'.ok)
       => ~\E i \in 1..Len(schedulesCsv) :
              /\ Lower(Strip(schedulesCsv[i].staff_email)) =
                    Lower(Strip(inp'.staff_email))
              /\ StrpDate(schedulesCsv[i].date) = StrpDate(inp'.date)
              /\ Strip(schedulesCsv[i].time) = Strip(inp'.time)]_vars

-----------------------------------------------------------------------------
(* Properties of the time clock, requests handled one after another *)

\* the status edges a request may take
EdgeOf(op) ==
    CASE op = "check_in"        -> {<<"scheduled", "checked_in">>}
      [] op = "start_break"     -> {<<"checked_in", "on_break">>}
      [] op = "end_break"       -> {<<"on_break", "checked_in">>}
      [] op \in {"check_out", "check_out_early"}
                                -> {<<"checked_in", "completed">>,
                                    <<"on_break", "completed">>}
      [] OTHER                  -> {}

StatusKept == \A i \in 1..Len(shiftsCsv) : shiftsCsv'[i].status = shiftsCsv[i].status

\* C2: a request changes a shift's status only along the edge of its
\* action, and a request on a shift whose status is not the source of
\* that edge is refused and changes no status.
C2_StatusEdges ==
    [][(now' = now /\ inp'.op \in TimeClockOps) =>
        /\ \A i \in 1..Len(shiftsCsv) :
              shiftsCsv'[i].status # shiftsCsv[i].status =>
                 <<shiftsCsv[i].status, shiftsCsv'[i].status>> \in EdgeOf(inp'.op)
        /\ LET target == FindShift(shiftsCsv, inp'.shift_id)
           IN  (/\ inp'.op # "add_note"
                /\ target # None
                /\ \A e \in EdgeOf(inp'.op) : e[1] # target.status)
               => (~resp'.ok /\ StatusKept)]_vars

\* C6: no staff member (email compared ignoring case) has two shift
\* records for the same calendar date.
C6_OneShiftPerDate ==
    \A i, j \in 1..Len(shiftsCsv) :
        (/\ i # j
         /\ Lower(shiftsCsv[i].staff_email) = Lower(shiftsCsv[j].staff_email))
        => StrpDate(shiftsCsv[i].date) # StrpDate(shiftsCsv[j].date)

\* C7: a time-clock or add-note request leaves every shift record of
\* another staff member unchanged; a request on another member's shift is
\* refused, and the owner's request is never refused for ownership.
C7_OwnerOnly ==
    [][(now' = now /\ inp'.op \in TimeClockOps) =>
        /\ \A i \in 1..Len(shiftsCsv) :
              Lower(shiftsCsv[i].staff_email) # Lower(inp'.user_email)
                 => shiftsCsv'[i] = shiftsCsv[i]
        /\ LET target == FindShift(shiftsCsv, inp'.shift_id)
           IN  target # None =>
                 IF Lower(target.staff_email) # Lower(inp'.user_email)
                 THEN ~resp'.ok /\ shiftsCsv' = shiftsCsv
                 ELSE resp'.msg \notin {MsgNotYours, MsgNotAuth}]_vars

\* a time-clock request was handled in this step
TimeClockStep == now' = now /\ inp'.op \in TimeClockOps

\* C15: a check-out, normal or early, requested for a shift that is still
\* scheduled fails and leaves the shift record unchanged.
C15_CheckOutNeedsCheckIn ==
    [][(TimeClockStep /\ inp'.op \in {"check_out", "check_out_early"}) =>
        \A i \in 1..Len(shiftsCsv) :
            (/\ shiftsCsv[i].shift_id = inp'.shift_id
             /\ shiftsCsv[i].status = "scheduled")
            => (~resp'.ok /\ shiftsCsv'[i] = shiftsCsv[i])]_vars

ShiftStatuses == {"scheduled", "checked_in", "on_break", "completed"}

\* C17: early check-out writes what normal check-out writes, plus the
\* flag, and ends in completed, not in a status of its own; the flag of a
\* shift changes only by an early check-out that completes the shift, and
\* then to YES.
C17_EarlyCheckoutFlag ==
    [][TimeClockStep =>
        \A i \in 1..Len(shiftsCsv) :
            LET r  == shiftsCsv[i]
                r2 == shiftsCsv'[i]
                normal == UpdateRow(r, [Call(r.shift_id, "completed") EXCEPT
                                          !.check_out_time = Arg(Strftime(now))])
            IN  /\ r2.status \in ShiftStatuses
                /\ r2.early_checkout # r.early_checkout
                     => (/\ inp'.op = "check_out_early"
                         /\ r2.early_checkout = "YES"
                         /\ r2.status = "completed")
                /\ (/\ inp'.op = "check_out_early" /\ resp'.ok
                    /\ r.shift_id = inp'.shift_id)
                     => r2 = [normal EXCEPT !.early_checkout = "YES"]]_vars

\* an early check-out completed a shift and set its flag
C17_Witness ==
    /\ inp.op = "check_out_early" /\ resp.ok
    /\ \E i \in 1..Len(shiftsCsv) :
          /\ shiftsCsv[i].shift_id = inp.shift_id
          /\ shiftsCsv[i].status = "completed"
          /\ shiftsCsv[i].early_checkout = "YES"
          /\ shiftsCsv[i].check_out_time # NoTime

C36_HoursWithinShift ==
    \A i \in 1..Len(shiftsCsv) :
        LET row == shiftsCsv[i]
        IN  (row.status = "completed" /\ row.check_in_time # NoTime
             /\ row.check_out_time # NoTime)
            => /\ 0 <= row.total_hours.h
               /\ row.total_hours.h * 36 <=
                     Strptime(row.check_out_time) - Strptime(row.check_in_time)

-----------------------------------------------------------------------------
(* Properties of the shift lifecycle *)

Abs(x) == IF x < 0 THEN 0 - x ELSE x

\* C8: after claim, check-in, start break, end break and check-out the
\* shift is completed and total_hours is (check-out - check-in) -
\* (break end - break start) in hours, to two decimals (within half a
\* hundredth of an hour); 09:00, 12:00-12:30, 17:00 gives 7.50.
C8_LifecycleHours ==
    stage = 8 =>
        /\ Len(shiftsCsv) = 1
        /\ shiftsCsv[1].status = "completed"
        /\ shiftsCsv[1].total_hours.fmt = ".2f"
        /\ Abs(36 * shiftsCsv[1].total_hours.h
               - ((plan[4] - plan[1]) - (plan[3] - plan[2]))) <= 18
        /\ plan = <<32400, 43200, 45000, 61200>> => shiftsCsv[1].total_hours.h = 750

\* the 09:00 / 12:00-12:30 / 17:00 shift has been checked out with 7.50
C8_Witness ==
    /\ stage = 8
    /\ plan = <<32400, 43200, 45000, 61200>>
    /\ shiftsCsv[1].total_hours = [fmt |-> ".2f", h |-> 750]
    /\ shiftsCsv[1].break_end = Strftime(45000)

-----------------------------------------------------------------------------
(* Properties of the time clock under concurrent requests *)

CompletedStays ==
    \A i \in 1..Len(shiftsCsv) :
        shiftsCsv[i].status = "completed" => shiftsCsv'[i].status = "completed"

\* C3 as stated: once a shift's stored status is completed no request, in
\* any interleaving of concurrently handled requests, changes it.
C3_CompletedTerminal == [][CompletedStays]_vars

\* C3 amended: completed is terminal as long as no two requests have been
\* in flight at once.
C3_CompletedTerminalSequential == [][~overlapped' => CompletedStays]_vars

\* a completed shift exists, a request has since been handled, and no two
\* requests ever overlapped
C3_Witness ==
    /\ ~overlapped
    /\ \E i \in 1..Len(shiftsCsv) : shiftsCsv[i].status = "completed"
    /\ inp.op = "add_note" /\ resp.ok
    /\ \A w \in Workers : reqs[w] = Idle

\* C13: the status guard is evaluated by the route and not again at the
\* write: a time-clock request that passed its guard is applied by
\* update_shift_status to the rows as they are by then, so of two requests
\* that both pass their guards before either writes, both are applied; a
\* start-break written after a check-out leaves a shift with a check-out
\* time in status on_break.
C13_GuardNotRechecked ==
    [][\A w \in Workers :
          (reqs[w] # Idle /\ reqs'[w] = Idle)
          => (/\ resp'.ok
              /\ Len(shiftsCsv') = Len(shiftsCsv)
              /\ \A i \in 1..Len(shiftsCsv) :
                    shiftsCsv[i].shift_id = reqs[w].call.shift_id
                    => (/\ shiftsCsv'[i].status = reqs[w].call.status
                        /\ Given(reqs[w].call.check_in_time)
                             => shiftsCsv'[i].check_in_time = reqs[w].call.check_in_time.v
                        /\ Given(reqs[w].call.break_start)
                             => shiftsCsv'[i].break_start = reqs[w].call.break_start.v))]_vars

\* after overlapping requests a shift is on break although it has a
\* check-out time
C13_Witness ==
    /\ overlapped
    /\ \E i \in 1..Len(shiftsCsv) :
          /\ shiftsCsv[i].status = "on_break"
          /\ shiftsCsv[i].check_out_time # NoTime
    /\ resp.ok

\* C14: writes to the shift collection are last-writer-wins: what is
\* stored after a write is the writer's own copy, whatever was written
\* since the writer read, so that a change another request wrote in
\* between, even to a different record, is lost.
C14_LastWriterWins ==
    [][\A w \in Workers :
          (reqs[w].pc = "write" /\ reqs'[w].pc = "done")
          => (shiftsCsv' = reqs[w].rows /\ reqs'[w].ok)]_vars

\* Alice's check-in and Alice2's claim both replied success, and the
\* stored collection holds Alice2's new shift but Alice's shift is still
\* scheduled: the check-in is lost
C14_Witness ==
    /\ overlapped
    /\ \E w, v \in Workers :
          /\ reqs[w] = [pc |-> "done", ok |-> TRUE, op |-> "check_in"]
          /\ reqs[v] = [pc |-> "done", ok |-> TRUE, op |-> "claim"]
    /\ Len(shiftsCsv) = 2
    /\ shiftsCsv[1].status = "scheduled"
    /\ shiftsCsv[1].check_in_time = NoTime

-----------------------------------------------------------------------------
(* Properties of the hours computation on incomplete or damaged rows *)

\* the status an accepted request writes
NewStatus(op, old) ==
    CASE op = "check_in"    -> "checked_in"
      [] op = "start_break" -> "on_break"
      [] op = "end_break"   -> "checked_in"
      [] op \in {"check_out", "check_out_early"} -> "completed"
      [] OTHER              -> old

\* the request's guard on the status holds
GuardHolds(op, status) ==
    op = "add_note" \/ \E e \in EdgeOf(op) : e[1] = status

\* a time-clock step whose guard holds on the stored shift
SoftStep ==
    /\ now' = now /\ inp'.op \in TimeClockOps
    /\ Len(shiftsCsv) = 1 /\ Len(shiftsCsv') = 1
    /\ GuardHolds(inp'.op, shiftsCsv[1].status)

Applied ==
    /\ resp'.ok
    /\ shiftsCsv'[1].status = NewStatus(inp'.op, shiftsCsv[1].status)

HoursKept == shiftsCsv'[1].total_hours = shiftsCsv[1].total_hours

\* C16 as stated: when, at the update, the check-in or check-out stamp is
\* missing or any stored stamp does not parse, the update is applied and
\* reported as success and total_hours keeps its prior value.
C16_SoftHours ==
    [][SoftStep =>
        LET r == shiftsCsv'[1]
        IN  (\/ r.check_in_time = NoTime \/ r.check_out_time = NoTime
             \/ Malformed \in {r.check_in_time, r.check_out_time,
                               r.break_start, r.break_end})
            => (Applied /\ HoursKept)]_vars

\* C16, amended: the update is applied and reported as success; when the
\* check-in or check-out stamp is missing or does not parse, total_hours
\* keeps its prior value; when both parse and a break stamp does not, the
\* hours are computed without subtracting the break.
C16_SoftHoursCheckStamps ==
    [][SoftStep =>
        LET r == shiftsCsv'[1]
            skipped == \/ r.check_in_time \in {NoTime, Malformed}
                       \/ r.check_out_time \in {NoTime, Malformed}
        IN  /\ Applied
            /\ skipped => HoursKept
            /\ (/\ ~skipped
                /\ r.break_start # NoTime /\ r.break_end # NoTime
                /\ Malformed \in {r.break_start, r.break_end})
               => r.total_hours =
                    Format2((r.check_out_time[1] - r.check_in_time[1]) * 86400
                            + r.check_out_time[2] - r.check_in_time[2])]_vars

\* a check-out was accepted on a shift whose check-in stamp does not
\* parse: the shift is completed and its hours are the prior ones
C16_Witness ==
    /\ inp.op = "check_out" /\ resp.ok
    /\ Len(shiftsCsv) = 1
    /\ shiftsCsv[1].status = "completed"
    /\ shiftsCsv[1].check_in_time = Malformed
    /\ shiftsCsv[1].check_out_time = Strftime(now)
    /\ shiftsCsv[1].total_hours = Format2(3600)

-----------------------------------------------------------------------------
(* Properties of the orders *)

StatusRank(st) == CHOOSE k \in 1..3 : valid_statuses[k] = st

\* an order of the file before the step is still there after it
Kept(i) == /\ i <= Len(ordersCsv')
           /\ ordersCsv'[i].order_id = ordersCsv[i].order_id

\* C23 (as stated): an order is created Pending, its status then only moves
\* forward along Pending -> Preparation Done -> Ready for Delivery, and no
\* operation deletes an order.
C23_StatusForwardOnly ==
    [][/\ \A i \in 1..Len(ordersCsv) :
             /\ Kept(i)
             /\ StatusRank(ordersCsv'[i].status) >= StatusRank(ordersCsv[i].status)
       /\ \A i \in (Len(ordersCsv) + 1)..Len(ordersCsv') :
             ordersCsv'[i].status = "Pending"]_vars

\* C23 (amended): an order is created Pending and no operation deletes an
\* order; a status update by staff that names a stored order and one of the
\* three statuses sets that order's status to the submitted one whatever
\* the status was, forward or back, and leaves every other order as it was;
\* any other update request changes nothing.
C23_StatusSetAsSubmitted ==
    [][/\ \A i \in 1..Len(ordersCsv) : Kept(i)
       /\ \A i \in (Len(ordersCsv) + 1)..Len(ordersCsv') :
             ordersCsv'[i].status = "Pending"
       /\ inp'.op = "update_order_status" =>
             LET accepted == /\ inp'.is_staff
                             /\ inp'.status \in Range(valid_statuses)
                             /\ StatusOf(ordersCsv, inp'.order_id) # ""
             IN  \A i \in 1..Len(ordersCsv) :
                    ordersCsv'[i] =
                       IF accepted /\ ordersCsv[i].order_id = inp'.order_id.v
                       THEN [ordersCsv[i] EXCEPT !.status = inp'.status]
                       ELSE ordersCsv[i]]_vars

\* an order that was Ready for Delivery has been set back to Pending
C23_Witness ==
    /\ inp.op = "update_order_status"
    /\ resp.was = "Ready for Delivery"
    /\ inp.status = "Pending"
    /\ resp.flash = status_messages["Pending"]
    /\ \E i \in 1..Len(ordersCsv) :
          ordersCsv[i].order_id = inp.order_id.v /\ ordersCsv[i].status = "Pending"

\* C24: with requests handled one after another, each new order receives
\* the number of existing orders plus one as its id: the stored ids are
\* 1, 2, 3, ... in creation order, so they strictly increase and no two
\* orders share one.
C24_SequentialIds ==
    /\ \A i \in 1..Len(ordersCsv) : ordersCsv[i].order_id = i
    /\ orders = ordersCsv

\* the last order the bound allows has been placed, after a status update
C24_Witness ==
    /\ Len(ordersCsv) = MaxOrders
    /\ inp.op = "checkout"
    /\ \E i \in 1..Len(ordersCsv) : ordersCsv[i].status # "Pending"

-----------------------------------------------------------------------------
(* Properties of the deals *)

Asked == inp.op = "get_active_deals"

\* the expiry text parses, as a timestamp or as a date
Parsable(deal) ==
    \/ StrptimeExpiry(deal.expires_at) # ValueError
    \/ StrptimeExpiryDate(deal.expires_at) # ValueError

\* the expiry has passed: a timestamp is before the clock reading, a date
\* without a time of day is before the current date
Passed(deal) ==
    \/ /\ StrptimeExpiry(deal.expires_at) # ValueError
       /\ StrptimeExpiry(deal.expires_at) < now
    \/ /\ StrptimeExpiry(deal.expires_at) = ValueError
       /\ StrptimeExpiryDate(deal.expires_at) # ValueError
       /\ StrptimeExpiryDate(deal.expires_at) < Today

\* C25: get_active_deals returns exactly the deals whose active flag is
\* true and whose expiry is unset, not yet passed at evaluation time, or
\* unparsable; a deal whose parsable expiry has passed is never returned,
\* whatever its flag.  (An expiry is "still in the future" until it has
\* passed: a timestamp until the clock is past it, a date for the whole of
\* its day.)
C25_ActiveDealsExact ==
    Asked =>
       /\ \A i \in 1..Len(deals) :
             (\E k \in 1..Len(resp.active) : resp.active[k] = deals[i])
             <=> /\ deals[i].is_active
                 /\ \/ deals[i].expires_at = <<>>
                    \/ ~Parsable(deals[i])
                    \/ ~Passed(deals[i])
       /\ \A k \in 1..Len(resp.active) :
             /\ \E i \in 1..Len(deals) : deals[i] = resp.active[k]
             /\ ~(Parsable(resp.active[k]) /\ Passed(resp.active[k]))
       /\ \A k, l \in 1..Len(resp.active) : k # l => resp.active[k] # resp.active[l]

\* the call returned a deal kept for its unparsable expiry and left out a
\* flagged deal whose expiry has passed
C25_Witness ==
    /\ Asked
    /\ \E k \in 1..Len(resp.active) :
          resp.active[k].expires_at # <<>> /\ ~Parsable(resp.active[k])
    /\ \E i \in 1..Len(deals) :
          /\ deals[i].is_active
          /\ Passed(deals[i])
          /\ \A k \in 1..Len(resp.active) : resp.active[k] # deals[i]

-----------------------------------------------------------------------------
(* Properties of the operations under storage failures *)

\* C26: no core operation raises an exception to its caller: whatever the
\* input and the state of the file (missing, unreadable, not writable), a
\* failure is reported as a returned value.
C26_NeverRaises ==
    resp # NoCall => resp.raised = ""

-----------------------------------------------------------------------------
(* Properties of the CSV cache *)

Changed(path) == is_file_changed(mtimes, _file_timestamps, path)
Cached(path) == get_cached_data(mtimes, _file_timestamps, _cached_data, path)

\* C27: for an existing file, is_file_changed is true when no modification
\* time is recorded for it, false after update_cache for as long as the
\* file's modification time is the recorded one, and true again once the
\* file has been modified at a time after the recorded one.
C27_FileChanged ==
    [][\A path \in DOMAIN mtimes' :
          /\ path \notin DOMAIN _file_timestamps' => Changed(path)'
          /\ (inp'.op = "update_cache" /\ inp'.path = path) => ~Changed(path)'
          /\ (/\ ~Changed(path)
              /\ path \in DOMAIN mtimes /\ mtimes'[path] = mtimes[path]
              /\ path \in DOMAIN _file_timestamps')
             => ~Changed(path)'
          /\ (/\ path \in DOMAIN _file_timestamps'
              /\ inp'.op = "write" /\ inp'.path = path
              /\ now > _file_timestamps'[path])
             => Changed(path)']_vars

\* a recorded file has been written at a later clock reading, and is
\* reported changed
C27_Witness ==
    /\ inp.op = "write"
    /\ inp.path \in DOMAIN _file_timestamps
    /\ mtimes[inp.path] > _file_timestamps[inp.path]
    /\ Changed(inp.path)

\* the step neither writes nor deletes the file
Unmodified(path) ==
    /\ ~(inp'.op \in {"write", "delete"} /\ inp'.path = path)
    /\ mtimes' = mtimes

\* C28: after update_cache(path, data) with data not None on an existing
\* file, get_cached_data(path) returns that data, and goes on returning it
\* for as long as the file is not modified and the entry is neither cleared
\* nor replaced.
C28_CacheRoundTrip ==
    [][\A path \in Paths :
          /\ (/\ inp'.op = "update_cache" /\ inp'.path = path
              /\ inp'.data.set /\ path \in DOMAIN mtimes)
             => Cached(path)' = inp'.data
          /\ (/\ Cached(path) # NoArg
              /\ Unmodified(path)
              /\ ~(inp'.op = "clear_cache"
                   /\ (~inp'.file_path.set \/ inp'.file_path.v = path))
              /\ ~(inp'.op = "update_cache" /\ inp'.path = path /\ inp'.data.set))
             => Cached(path)' = Cached(path)]_vars

\* the data stored for a file was returned at a later clock reading, the
\* other file having been written since
C28_Witness ==
    /\ inp.op = "ask"
    /\ resp.data # NoArg
    /\ inp.path \in DOMAIN mtimes
    /\ now > mtimes[inp.path]
    /\ \E other \in DOMAIN mtimes : other # inp.path /\ mtimes[other] = now

\* what a dict holds for a key
Entry(dict, key) == IF key \in DOMAIN dict THEN Arg(dict[key]) ELSE NoArg

\* C29: after clear_cache(path), or clear_cache() for all files,
\* get_cached_data(path) returns None until the next update_cache(path,
\* data); clear_cache(path) leaves the cached timestamp and data of every
\* other path unchanged.
C29_ClearCache ==
    [][/\ inp'.op = "clear_cache" =>
             \A path \in Paths :
                IF ~inp'.file_path.set \/ inp'.file_path.v = path
                THEN /\ Cached(path)' = NoArg
                     /\ path \notin DOMAIN _cached_data'
                ELSE /\ Entry(_file_timestamps', path) = Entry(_file_timestamps, path)
                     /\ Entry(_cached_data', path) = Entry(_cached_data, path)
       /\ \A path \in Paths :
             (/\ path \notin DOMAIN _cached_data
              /\ ~(inp'.op = "update_cache" /\ inp'.path = path /\ inp'.data.set))
             => /\ path \notin DOMAIN _cached_data'
                /\ Cached(path)' = NoArg]_vars

\* one path was cleared while the other path's data is still returned
C29_Witness ==
    /\ inp.op = "clear_cache"
    /\ inp.file_path.set
    /\ Cached(inp.file_path.v) = NoArg
    /\ inp.file_path.v \in DOMAIN mtimes
    /\ \E other \in Paths : other # inp.file_path.v /\ Cached(other) # NoArg

\* C37: get_cached_data never returns stale data: a result that is not None
\* is the data stored by an update_cache(path, data) call made after the
\* latest modification or deletion of the file.
C37_NeverStale ==
    \A path \in Paths :
        Cached(path) # NoArg
        => path \in DOMAIN fresh /\ Cached(path) = Arg(fresh[path])

-----------------------------------------------------------------------------
(* Properties of validate_quantity *)

Validated == inp.op = "validate_quantity" /\ resp # NoCall

\* the text is a decimal numeral of q: after the surrounding whitespace and
\* a leading plus sign, digits (possibly grouped by single underscores)
\* whose value is q
Denotes(text, q) ==
    LET t == Strip(text)
        body == IF t # <<>> /\ t[1] = "+" THEN Tail(t) ELSE t
        digit(i) == i \in 1..Len(body) /\ body[i] \in DOMAIN DigitVal
    IN  /\ body # <<>>
        /\ \A i \in 1..Len(body) :
              digit(i) \/ (body[i] = "_" /\ digit(i - 1) /\ digit(i + 1))
        /\ ToInt(SelectSeq(body, LAMBDA c : c # "_")) = q

\* C30: with the default bounds validate_quantity returns (valid, q) if and
\* only if the input denotes an integer q with 1 <= q <= 99; for 0, for
\* values above 99 and for empty or non-numeric input it returns invalid
\* with no value and an error message.
C30_QuantityBounds ==
    Validated =>
       /\ resp.valid <=> \E q \in 1..99 : Denotes(inp.qty_str, q)
       /\ \A q \in 1..99 : Denotes(inp.qty_str, q) => resp.qty = Arg(q)
       /\ resp.valid => resp.msg = NoArg
       /\ ~resp.valid => (resp.qty = NoArg /\ resp.msg # NoArg)

\* "99" was accepted with the value 99
C30_Witness ==
    /\ Validated
    /\ inp.qty_str = <<"9", "9">>
    /\ resp = [valid |-> TRUE, qty |-> Arg(99), msg |-> NoArg]

\* "100" was refused with no value and the message naming the maximum
C30_WitnessOver ==
    /\ Validated
    /\ inp.qty_str = <<"1", "0", "0">>
    /\ resp = [valid |-> FALSE, qty |-> NoArg, msg |-> Arg(MsgQtyExceed(99))]

-----------------------------------------------------------------------------
(* Properties of shift creation *)

\* C32: a create_shift call on a shift file that is missing or usable
\* returns true and adds exactly one record for the given staff member and
\* date, scheduled, with empty times, zero hours and the early-checkout flag
\* off, and leaves the earlier records as they were.
C32_CreateAddsOne ==
    [][(inp'.op = "create_shift" /\ (~shiftsMode.exists \/ shiftsMode = Usable))
       => /\ resp'.ok
          /\ Len(shiftsCsv') = Len(shiftsCsv) + 1
          /\ SubSeq(shiftsCsv', 1, Len(shiftsCsv)) = shiftsCsv
          /\ LET row == shiftsCsv'[Len(shiftsCsv')]
             IN  /\ row.staff_email = inp'.staff_email
                 /\ row.date = inp'.date
                 /\ row.status = "scheduled"
                 /\ row.check_in_time = NoTime
                 /\ row.check_out_time = NoTime
                 /\ row.break_start = NoTime
                 /\ row.break_end = NoTime
                 /\ row.total_hours = ZeroHours
                 /\ row.early_checkout = "NO"]_vars

\* C33: shift ids are unique: whatever create_shift calls were made, no two
\* shift records carry the same shift_id.
C33_UniqueShiftIds ==
    \A i, j \in 1..Len(shiftsCsv) :
        i # j => shiftsCsv[i].shift_id # shiftsCsv[j].shift_id

-----------------------------------------------------------------------------
(* Properties of the user accounts *)

\* C34: no two user records have emails that are equal ignoring letter case
\* and surrounding whitespace.
C34_UniqueEmails ==
    \A i, j \in 1..Len(usersCsv) :
        i # j => Lower(Strip(usersCsv[i].email)) # Lower(Strip(usersCsv[j].email))

-----------------------------------------------------------------------------
(* Properties of the session cart *)

\* C38: whatever cart requests were made, every item in the cart has a
\* whole quantity between 1 and 99.
C38_CartQuantities ==
    \A item_name \in DOMAIN cart :
        /\ cart[item_name].qty \in Int
        /\ 1 <= cart[item_name].qty
        /\ cart[item_name].qty <= CartMax

\* an item stands at 99 and a request to add more of it was handled
C38_Witness ==
    /\ inp.op \in {"add_to_cart", "api_cart_add"}
    /\ resp.ok
    /\ \E item_name \in DOMAIN cart : cart[item_name].qty = CartMax

-----------------------------------------------------------------------------
(* Properties of the verification codes *)

HasCode(email) == Lower(email) \in DOMAIN _verification_codes
CodeOf(email) == _verification_codes[Lower(email)]
HasCodeAfter(email) == Lower(email) \in DOMAIN _verification_codes'
CodeAfter(email) == _verification_codes'[Lower(email)]
Verifying == inp'.op = "verify_code"
Storing(email) ==
    inp'.op = "store_verification_code" /\ Lower(inp'.email) = Lower(email)

\* C39: the attempt counter of a stored code never exceeds 5; the fifth
\* wrong attempt removes the entry; and once the entry is gone verify_code
\* rejects every code, the stored one included, until store_verification_code
\* is called again for that email.
C39_FiveAttempts ==
    [][/\ \A email \in VerifyEmails :
             /\ HasCodeAfter(email) => CodeAfter(email).attempts <= MaxAttempts
             /\ (~HasCode(email) /\ ~Storing(email)) => ~HasCodeAfter(email)
       /\ (/\ Verifying /\ HasCode(inp'.email)
           /\ now <= CodeOf(inp'.email).expires_at
           /\ CodeOf(inp'.email).code # inp'.code)
          => /\ ~resp'.valid
             /\ IF CodeOf(inp'.email).attempts = MaxAttempts - 1
                THEN ~HasCodeAfter(inp'.email)
                ELSE /\ HasCodeAfter(inp'.email)
                     /\ CodeAfter(inp'.email).attempts =
                           CodeOf(inp'.email).attempts + 1
       /\ (Verifying /\ ~HasCode(inp'.email)) => ~resp'.valid]_vars

\* the fifth wrong attempt was just made: the entry is gone
C39_Witness ==
    /\ inp.op = "verify_code"
    /\ resp.msg = MsgTooMany
    /\ ~HasCode(inp.email)

\* C40: verify_code returns valid only when an entry for the email
\* (compared ignoring letter case) exists, has not passed its expiry time
\* and holds that code; a valid result removes the entry, an entry's expiry
\* time changes only by storing a new code, and without an entry or past
\* the expiry time every verify_code fails.
C40_SingleUseExpiring ==
    [][/\ Verifying
          => /\ resp'.valid
                => /\ HasCode(inp'.email)
                   /\ now <= CodeOf(inp'.email).expires_at
                   /\ CodeOf(inp'.email).code = inp'.code
                   /\ ~HasCodeAfter(inp'.email)
             /\ (~HasCode(inp'.email) \/ now > CodeOf(inp'.email).expires_at)
                => ~resp'.valid /\ ~HasCodeAfter(inp'.email)
       /\ \A email \in VerifyEmails :
             /\ (~HasCode(email) /\ ~Storing(email)) => ~HasCodeAfter(email)
             /\ (HasCode(email) /\ HasCodeAfter(email) /\ ~Storing(email))
                => CodeAfter(email).expires_at = CodeOf(email).expires_at
             /\ Storing(email)
                => CodeAfter(email).expires_at = now + CODE_EXPIRY_MINUTES * 60
       /\ now' >= now]_vars

\* a code was accepted under another spelling of the email
C40_Witness ==
    /\ inp.op = "verify_code"
    /\ resp.valid
    /\ inp.email # Lower(inp.email)

\* a code was refused because its time had passed
C40_WitnessExpired ==
    /\ inp.op = "verify_code"
    /\ resp.msg = MsgExpired

-----------------------------------------------------------------------------
(* Properties of the allergy check *)

Screened == inp.op = "safe" /\ resp # NoCall

\* C4: whenever the disclosed allergy text is empty, or empty once its
\* surrounding whitespace is trimmed, the order is reported safe, whatever
\* the order text and the catalog are.
C4_EmptyAllergySafe ==
    (Screened /\ Strip(inp.allergy_text) = <<>>) => resp.safe = TRUE

\* an all-blank disclosure was screened against a catalog holding an item
\* the order names and which carries a tag
C4_Witness ==
    /\ Screened
    /\ inp.allergy_text # <<>>
    /\ Strip(inp.allergy_text) = <<>>
    /\ \E i \in 1..Len(menu_items) :
          /\ menu_items[i].allergens # <<>>
          /\ Contains(Lower(inp.items_text), Lower(menu_items[i].name))
    /\ resp.safe = TRUE

\* C5: if the order text contains, in any letter case, the name of a catalog
\* item and the allergy text contains, in any letter case, one of that
\* item's allergen tags, the order is reported unsafe.
C5_TaggedItemUnsafe ==
    (/\ Screened
     /\ \E i \in 1..Len(menu_items) :
           /\ Contains(Lower(inp.items_text), Lower(menu_items[i].name))
           /\ \E k \in 1..Len(menu_items[i].allergens) :
                 Contains(Lower(inp.allergy_text), Lower(menu_items[i].allergens[k])))
    => resp.safe = FALSE


\* C21: the order is reported safe whenever no allergen tag of any catalog
\* item whose name occurs (in any letter case) in the order text is a
\* substring of the lowercased allergy text; in particular when no catalog
\* item is named by the order text at all.
C21_NoTagSafe ==
    (/\ Screened
     /\ \A i \in 1..Len(menu_items) :
           Contains(Lower(inp.items_text), Lower(menu_items[i].name))
           => \A k \in 1..Len(menu_items[i].allergens) :
                 ~Contains(Lower(inp.allergy_text), menu_items[i].allergens[k]))
    => resp.safe = TRUE

\* a non-empty disclosure was screened against a loaded catalog, the order
\* names a tagged item, none of its tags is in the disclosure, and a tag of
\* another item is
C21_Witness ==
    /\ Screened
    /\ Strip(inp.allergy_text) # <<>>
    /\ \E i \in 1..Len(menu_items) :
          /\ Contains(Lower(inp.items_text), Lower(menu_items[i].name))
          /\ menu_items[i].allergens # <<>>
    /\ \A i \in 1..Len(menu_items) :
          Contains(Lower(inp.items_text), Lower(menu_items[i].name))
          => \A k \in 1..Len(menu_items[i].allergens) :
                ~Contains(Lower(inp.allergy_text), menu_items[i].allergens[k])
    /\ \E i \in 1..Len(menu_items) : \E k \in 1..Len(menu_items[i].allergens) :
          Contains(Lower(inp.allergy_text), menu_items[i].allergens[k])
    /\ resp.safe = TRUE

\* the order text names no catalog item and the disclosure is not empty
C21_WitnessNoItem ==
    /\ Screened
    /\ Strip(inp.allergy_text) # <<>>
    /\ menu_items # <<>>
    /\ \A i \in 1..Len(menu_items) :
          ~Contains(Lower(inp.items_text), Lower(menu_items[i].name))
    /\ resp.safe = TRUE

\* C22: the allergy check has no side effects: the in-memory catalog and
\* the menu file are the same after the call as before it, for every input
\* and every starting state.
C22_CheckIsPure ==
    [][(resp = NoCall /\ resp' # NoCall)
       => (menu_items' = menu_items /\ menuCsv' = menuCsv)]_vars

====
